---- MODULE Spec2Model ----
(***************************************************************************)
(* XMSS / XMSS-MT (RFC 8391) signing library: key generation, signing,     *)
(* verification, the BDS traversal state and the leaf-index lifecycle.     *)
(*                                                                         *)
(* Byte strings of n bytes produced by the hash layer are symbolic terms   *)
(* (tuples); two terms are equal exactly when they were built by the same  *)
(* hash call on the same inputs (collision-free idealisation).  Integers   *)
(* that the code stores as bytes (OID, idx) are stored as byte arrays and  *)
(* converted by ull_to_bytes / bytes_to_ull exactly as the code does.      *)
(* C arrays are functions on 0..len-1.                                     *)
(*                                                                         *)
(* The parameter table is instantiated at reduced sizes (n = 1 byte,       *)
(* small h); every derived quantity is computed by derive_params as in     *)
(* the source, so that the relation between h and idx_bytes of the real    *)
(* sets is kept: 8*idx_bytes > h (XMSS, XMSS-MT h = 20, 60) and            *)
(* 8*idx_bytes = h (XMSS-MT h = 40).                                       *)
(***************************************************************************)
EXTENDS Integers, Sequences, FiniteSets, TLC

\* ---------------------------------------------------------------- constants
XMSS_OK == 0
XMSS_ERR_PARAMS == 0 - 1
XMSS_ERR_ENTROPY == 0 - 2
XMSS_ERR_VERIFY == 0 - 3
XMSS_ERR_EXHAUSTED == 0 - 4
\* value of ret while a call is running (not a return code of the library)
Pending == XMSS_OK + 1

XMSS_MAX_H == 20
XMSS_MAX_D == 12
XMSS_MAX_WOTS_LEN == 131
XMSS_FUNC_SHA2 == 0
XMSS_FUNC_SHAKE128 == 1
XMSS_FUNC_SHAKE256 == 2
DOM_H_MSG == 2
DOM_PRF_KEYGEN == 4
XMSS_MAX_BDS_K == 4

XMSS_ADRS_TYPE_OTS == 0
XMSS_ADRS_TYPE_LTREE == 1
XMSS_ADRS_TYPE_HASH == 2

OID_XMSSMT_PREFIX == 16777216

\* ---------------------------------------------------------------- bounds
\* number of successful sign calls explored beyond the capacity 2^h of a key
ExtraSigns == 2
\* messages offered to sign and verify are 1..NumMsgs
NumMsgs == 2
\* ct_memcmp is followed byte by byte on buffers of 0..MaxCmpLen bytes
MaxCmpLen == 3
\* rounds of the BDS traversal followed when the caller chooses the number
\* of updates of each round freely
MaxRounds == 12

\* ---------------------------------------------------------------- arithmetic
RECURSIVE Pow2(_)
Pow2(k) == IF k <= 0 THEN 1 ELSE 2 * Pow2(k - 1)

\* x >> k and x & (2^k - 1) on non-negative integers
Shr(x, k) == x \div Pow2(k)
MaskLow(x, k) == x % Pow2(k)
Bit(x, k) == (x \div Pow2(k)) % 2

Min(a, b) == IF a < b THEN a ELSE b

\* ---------------------------------------------------------------- utils.c
\* ull_to_bytes(out, len, val): big-endian, truncating val to len bytes
ull_to_bytes(len, val) ==
  [i \in 0..(len - 1) |-> Shr(val, 8 * (len - 1 - i)) % 256]

\* A uint64 read from at most 8 bytes.  TLC integers are 32-bit, so the value
\* is kept as hi * 2^24 + lo: lo holds the low three bytes, hi the bytes above.
RECURSIVE HornerBytes(_, _, _)
HornerBytes(in, from, to) ==
  IF to < from THEN 0 ELSE HornerBytes(in, from, to - 1) * 256 + in[to]

bytes_to_ull(in, len) ==
  [hi |-> HornerBytes(in, 0, len - 4),
   lo |-> HornerBytes(in, IF len > 3 THEN len - 3 ELSE 0, len - 1)]

\* comparison uint64 > small bound, and the low part as an ordinary integer
U64Gt(v, bound) == v.hi > 0 \/ v.lo > bound
U64Low(v) == v.lo

\* ct_memcmp(a, b, n) over one n-byte value: 0 iff all bytes agree
ct_memcmp(a, b) == IF a = b THEN 0 ELSE 1

\* ---------------------------------------------------------------- params.c
ceil_div(a, b) == (a + b - 1) \div b

RECURSIVE floor_log2(_)
floor_log2(x) == IF x > 1 THEN 1 + floor_log2(x \div 2) ELSE 0

\* derive_params: all computed fields from (oid, n, w, h, d)
\* ((uint64_t)1 << h) - 1.  It is an integer while it fits the integers of
\* TLC (h < 31); above that it is kept as three 24-bit limbs, least
\* significant first, computed by the shift and a decrement with borrow.
U64Shl1(h) == [j \in 0..2 |-> IF h \div 24 = j THEN Pow2(h % 24) ELSE 0]
RECURSIVE U64Dec(_, _)
U64Dec(v, j) ==
  IF j > 2 THEN v
  ELSE IF v[j] > 0 THEN [v EXCEPT ![j] = @ - 1]
  ELSE U64Dec([v EXCEPT ![j] = Pow2(24) - 1], j + 1)
IdxMax(h) == IF h < 31 THEN Pow2(h) - 1 ELSE U64Dec(U64Shl1(h), 0)

\* derive_params with idx_bytes = ceil(h/8) for single-tree sets as well
derive_params_idx_by_height(e) ==
  LET log2_w == IF e.w = 4 THEN 2 ELSE 4
      len1 == ceil_div(8 * e.n, log2_w)
      len2 == (floor_log2(len1 * (e.w - 1)) \div log2_w) + 1
      idx_bytes == ceil_div(e.h, 8)
  IN [oid |-> e.oid, n |-> e.n, w |-> e.w, log2_w |-> log2_w,
      len1 |-> len1, len2 |-> len2, len |-> len1 + len2,
      h |-> e.h, d |-> e.d, tree_height |-> e.h \div e.d,
      idx_bytes |-> idx_bytes,
      idx_max |-> IdxMax(e.h),
      sig_bytes |-> idx_bytes + e.n + e.d * (len1 + len2) * e.n + e.h * e.n,
      pk_bytes |-> 4 + 2 * e.n,
      sk_bytes |-> 4 + idx_bytes + 4 * e.n]

derive_params(e) ==
  LET log2_w == IF e.w = 4 THEN 2 ELSE 4
      len1 == ceil_div(8 * e.n, log2_w)
      len2 == (floor_log2(len1 * (e.w - 1)) \div log2_w) + 1
      idx_bytes == IF e.d = 1 THEN 4 ELSE ceil_div(e.h, 8)
  IN [oid |-> e.oid, n |-> e.n, w |-> e.w, log2_w |-> log2_w,
      len1 |-> len1, len2 |-> len2, len |-> len1 + len2,
      h |-> e.h, d |-> e.d, tree_height |-> e.h \div e.d,
      idx_bytes |-> idx_bytes,
      idx_max |-> IdxMax(e.h),
      sig_bytes |-> idx_bytes + e.n + e.d * (len1 + len2) * e.n + e.h * e.n,
      pk_bytes |-> 4 + 2 * e.n,
      sk_bytes |-> 4 + idx_bytes + 4 * e.n]

\* oid_table at reduced sizes: XMSS rows (d = 1) and XMSS-MT rows (d > 1,
\* stored with the internal prefix).  The last row has 8*idx_bytes = h, as the
\* XMSSMT-*_40/* rows of the source have.
oid_table ==
  { [oid |-> 1, n |-> 1, w |-> 16, h |-> 2, d |-> 1],
    [oid |-> 2, n |-> 1, w |-> 16, h |-> 4, d |-> 1],
    [oid |-> OID_XMSSMT_PREFIX + 1, n |-> 1, w |-> 16, h |-> 4, d |-> 2],
    [oid |-> OID_XMSSMT_PREFIX + 3, n |-> 1, w |-> 16, h |-> 8, d |-> 2] }

ParamSets == { derive_params(e) : e \in oid_table }
\* the index field of sk and sig is wider than h bits / exactly h bits
WideIdxSets == { q \in ParamSets : 8 * q.idx_bytes > q.h }
ExactIdxSets == { q \in ParamSets : 8 * q.idx_bytes = q.h }
\* a single-tree set tall enough for several treehash instances to hold
\* nodes on the shared stack at once
TallSets == { derive_params([oid |-> 3, n |-> 1, w |-> 16, h |-> 6, d |-> 1]) }

\* an XMSS-MT set with a middle layer (d = 3), as XMSSMT-*_60/3 has: layer 1
\* has a "next" tree that only the shared updates budget builds
DeepSets ==
  { derive_params([oid |-> OID_XMSSMT_PREFIX + 5, n |-> 1, w |-> 16,
                   h |-> 6, d |-> 3]) }

\* derive_params returns -1 instead of 0 on these conditions
derive_fails(e) ==
  \/ e.w \notin {4, 16}
  \/ derive_params(e).len > XMSS_MAX_WOTS_LEN
  \/ derive_params(e).tree_height > XMSS_MAX_H

\* The table of the source at its own sizes, in its order: 12 XMSS rows and
\* 32 XMSS-MT rows (func is left out, no derived field depends on it).  Keys
\* of these sizes are never generated in the model; the rows are looked up
\* and their fields derived.
oid_table_rfc8391 ==
  <<
     [oid |-> 1, name |-> "XMSS-SHA2_10_256", n |-> 32, w |-> 16, h |-> 10, d |-> 1],
     [oid |-> 2, name |-> "XMSS-SHA2_16_256", n |-> 32, w |-> 16, h |-> 16, d |-> 1],
     [oid |-> 3, name |-> "XMSS-SHA2_20_256", n |-> 32, w |-> 16, h |-> 20, d |-> 1],
     [oid |-> 4, name |-> "XMSS-SHA2_10_512", n |-> 64, w |-> 16, h |-> 10, d |-> 1],
     [oid |-> 5, name |-> "XMSS-SHA2_16_512", n |-> 64, w |-> 16, h |-> 16, d |-> 1],
     [oid |-> 6, name |-> "XMSS-SHA2_20_512", n |-> 64, w |-> 16, h |-> 20, d |-> 1],
     [oid |-> 7, name |-> "XMSS-SHAKE_10_256", n |-> 32, w |-> 16, h |-> 10, d |-> 1],
     [oid |-> 8, name |-> "XMSS-SHAKE_16_256", n |-> 32, w |-> 16, h |-> 16, d |-> 1],
     [oid |-> 9, name |-> "XMSS-SHAKE_20_256", n |-> 32, w |-> 16, h |-> 20, d |-> 1],
     [oid |-> 10, name |-> "XMSS-SHAKE_10_512", n |-> 64, w |-> 16, h |-> 10, d |-> 1],
     [oid |-> 11, name |-> "XMSS-SHAKE_16_512", n |-> 64, w |-> 16, h |-> 16, d |-> 1],
     [oid |-> 12, name |-> "XMSS-SHAKE_20_512", n |-> 64, w |-> 16, h |-> 20, d |-> 1],
     [oid |-> OID_XMSSMT_PREFIX + 1, name |-> "XMSSMT-SHA2_20/2_256", n |-> 32, w |-> 16, h |-> 20, d |-> 2],
     [oid |-> OID_XMSSMT_PREFIX + 2, name |-> "XMSSMT-SHA2_20/4_256", n |-> 32, w |-> 16, h |-> 20, d |-> 4],
     [oid |-> OID_XMSSMT_PREFIX + 3, name |-> "XMSSMT-SHA2_40/2_256", n |-> 32, w |-> 16, h |-> 40, d |-> 2],
     [oid |-> OID_XMSSMT_PREFIX + 4, name |-> "XMSSMT-SHA2_40/4_256", n |-> 32, w |-> 16, h |-> 40, d |-> 4],
     [oid |-> OID_XMSSMT_PREFIX + 5, name |-> "XMSSMT-SHA2_40/8_256", n |-> 32, w |-> 16, h |-> 40, d |-> 8],
     [oid |-> OID_XMSSMT_PREFIX + 6, name |-> "XMSSMT-SHA2_60/3_256", n |-> 32, w |-> 16, h |-> 60, d |-> 3],
     [oid |-> OID_XMSSMT_PREFIX + 7, name |-> "XMSSMT-SHA2_60/6_256", n |-> 32, w |-> 16, h |-> 60, d |-> 6],
     [oid |-> OID_XMSSMT_PREFIX + 8, name |-> "XMSSMT-SHA2_60/12_256", n |-> 32, w |-> 16, h |-> 60, d |-> 12],
     [oid |-> OID_XMSSMT_PREFIX + 9, name |-> "XMSSMT-SHA2_20/2_512", n |-> 64, w |-> 16, h |-> 20, d |-> 2],
     [oid |-> OID_XMSSMT_PREFIX + 10, name |-> "XMSSMT-SHA2_20/4_512", n |-> 64, w |-> 16, h |-> 20, d |-> 4],
     [oid |-> OID_XMSSMT_PREFIX + 11, name |-> "XMSSMT-SHA2_40/2_512", n |-> 64, w |-> 16, h |-> 40, d |-> 2],
     [oid |-> OID_XMSSMT_PREFIX + 12, name |-> "XMSSMT-SHA2_40/4_512", n |-> 64, w |-> 16, h |-> 40, d |-> 4],
     [oid |-> OID_XMSSMT_PREFIX + 13, name |-> "XMSSMT-SHA2_40/8_512", n |-> 64, w |-> 16, h |-> 40, d |-> 8],
     [oid |-> OID_XMSSMT_PREFIX + 14, name |-> "XMSSMT-SHA2_60/3_512", n |-> 64, w |-> 16, h |-> 60, d |-> 3],
     [oid |-> OID_XMSSMT_PREFIX + 15, name |-> "XMSSMT-SHA2_60/6_512", n |-> 64, w |-> 16, h |-> 60, d |-> 6],
     [oid |-> OID_XMSSMT_PREFIX + 16, name |-> "XMSSMT-SHA2_60/12_512", n |-> 64, w |-> 16, h |-> 60, d |-> 12],
     [oid |-> OID_XMSSMT_PREFIX + 17, name |-> "XMSSMT-SHAKE_20/2_256", n |-> 32, w |-> 16, h |-> 20, d |-> 2],
     [oid |-> OID_XMSSMT_PREFIX + 18, name |-> "XMSSMT-SHAKE_20/4_256", n |-> 32, w |-> 16, h |-> 20, d |-> 4],
     [oid |-> OID_XMSSMT_PREFIX + 19, name |-> "XMSSMT-SHAKE_40/2_256", n |-> 32, w |-> 16, h |-> 40, d |-> 2],
     [oid |-> OID_XMSSMT_PREFIX + 20, name |-> "XMSSMT-SHAKE_40/4_256", n |-> 32, w |-> 16, h |-> 40, d |-> 4],
     [oid |-> OID_XMSSMT_PREFIX + 21, name |-> "XMSSMT-SHAKE_40/8_256", n |-> 32, w |-> 16, h |-> 40, d |-> 8],
     [oid |-> OID_XMSSMT_PREFIX + 22, name |-> "XMSSMT-SHAKE_60/3_256", n |-> 32, w |-> 16, h |-> 60, d |-> 3],
     [oid |-> OID_XMSSMT_PREFIX + 23, name |-> "XMSSMT-SHAKE_60/6_256", n |-> 32, w |-> 16, h |-> 60, d |-> 6],
     [oid |-> OID_XMSSMT_PREFIX + 24, name |-> "XMSSMT-SHAKE_60/12_256", n |-> 32, w |-> 16, h |-> 60, d |-> 12],
     [oid |-> OID_XMSSMT_PREFIX + 25, name |-> "XMSSMT-SHAKE_20/2_512", n |-> 64, w |-> 16, h |-> 20, d |-> 2],
     [oid |-> OID_XMSSMT_PREFIX + 26, name |-> "XMSSMT-SHAKE_20/4_512", n |-> 64, w |-> 16, h |-> 20, d |-> 4],
     [oid |-> OID_XMSSMT_PREFIX + 27, name |-> "XMSSMT-SHAKE_40/2_512", n |-> 64, w |-> 16, h |-> 40, d |-> 2],
     [oid |-> OID_XMSSMT_PREFIX + 28, name |-> "XMSSMT-SHAKE_40/4_512", n |-> 64, w |-> 16, h |-> 40, d |-> 4],
     [oid |-> OID_XMSSMT_PREFIX + 29, name |-> "XMSSMT-SHAKE_40/8_512", n |-> 64, w |-> 16, h |-> 40, d |-> 8],
     [oid |-> OID_XMSSMT_PREFIX + 30, name |-> "XMSSMT-SHAKE_60/3_512", n |-> 64, w |-> 16, h |-> 60, d |-> 3],
     [oid |-> OID_XMSSMT_PREFIX + 31, name |-> "XMSSMT-SHAKE_60/6_512", n |-> 64, w |-> 16, h |-> 60, d |-> 6],
     [oid |-> OID_XMSSMT_PREFIX + 32, name |-> "XMSSMT-SHAKE_60/12_512", n |-> 64, w |-> 16, h |-> 60, d |-> 12] >>

fill_from_entry(e) ==
  [params |-> derive_params(e),
   ret |-> IF derive_fails(e) THEN 0 - 1 ELSE 0]

\* the first row i (in table order) among hits, 0 if there is none
FirstEntry(hits) ==
  IF hits = {} THEN 0 ELSE CHOOSE i \in hits : \A j \in hits : i <= j
TableRows == 1..Len(oid_table_rfc8391)

\* The four lookups: [params, ret] of the row found, or XMSS_ERR_PARAMS and
\* the caller's struct q as it was.
LookupResult(q, i) ==
  IF i = 0 THEN [params |-> q, ret |-> XMSS_ERR_PARAMS]
  ELSE fill_from_entry(oid_table_rfc8391[i])
xmss_params_from_oid(q, oid) ==
  LookupResult(q, FirstEntry({i \in TableRows :
    oid_table_rfc8391[i].oid = oid /\ oid_table_rfc8391[i].d = 1}))
xmss_params_from_name(q, name) ==
  LookupResult(q, FirstEntry({i \in TableRows :
    oid_table_rfc8391[i].name = name /\ oid_table_rfc8391[i].d = 1}))
xmssmt_params_from_oid(q, oid) ==
  LET internal_oid == IF oid > 0 /\ oid <= 32 THEN oid + OID_XMSSMT_PREFIX
                      ELSE oid
  IN LookupResult(q, FirstEntry({i \in TableRows :
       oid_table_rfc8391[i].oid = internal_oid /\ oid_table_rfc8391[i].d > 1}))
xmssmt_params_from_name(q, name) ==
  LookupResult(q, FirstEntry({i \in TableRows :
    oid_table_rfc8391[i].name = name /\ oid_table_rfc8391[i].d > 1}))

\* ---------------------------------------------------------------- address.c
\* xmss_adrs_t: eight 32-bit words w[0..7], kept as an 8-tuple (w[k] at k+1)
ZeroAdrs == <<0, 0, 0, 0, 0, 0, 0, 0>>
set_word(a, idx, val) == [a EXCEPT ![idx + 1] = val]
xmss_adrs_set_layer(a, layer) == set_word(a, 0, layer)
\* the tree address is 64-bit: high word in w[1], low word in w[2]; every tree
\* index of the model is below 2^32, so the high word is 0
xmss_adrs_set_tree(a, tree) == set_word(set_word(a, 1, 0), 2, tree)
xmss_adrs_set_type(a, type) ==
  [set_word(a, 3, type) EXCEPT ![5] = 0, ![6] = 0, ![7] = 0, ![8] = 0]
xmss_adrs_set_ots(a, ots) == set_word(a, 4, ots)
xmss_adrs_set_chain(a, chain) == set_word(a, 5, chain)
xmss_adrs_set_hash(a, hash) == set_word(a, 6, hash)
xmss_adrs_set_ltree(a, ltree) == set_word(a, 4, ltree)
xmss_adrs_set_tree_height(a, height) == set_word(a, 5, height)
xmss_adrs_set_tree_index(a, index) == set_word(a, 6, index)
xmss_adrs_set_key_and_mask(a, km) == set_word(a, 7, km)

\* ---------------------------------------------------------------- hash layer
\* Outputs of the five hash constructions are terms.  Long honest terms have
\* a short normal form, produced by the one rule that builds them, so that
\* equality of normal forms is equality of the terms they stand for:
\*   <<"C", x, seed, a, e>>  F iterated on x with hash addresses below e
\*   <<"L", ...>>            l_tree of a complete WOTS+ public key
\*   <<"N", ...>>            H of the two honest children of a tree node
\* Every n-byte value is a tuple whose first element is a tag.
IsTerm(x, tag) == x[1] = tag
ZeroBytes == <<"Z">>

xmss_PRF_keygen(sk_seed, a) == <<"PRFk", sk_seed, a>>
xmss_PRF_idx(sk_prf, idx) == <<"PRFi", sk_prf, idx>>
\* the index enters H_msg as toByte(idx, 32): all eight bytes of the uint64
xmss_H_msg(r, root, idx, msg) == <<"Hmsg", r, root, idx, msg>>

\* xmss_H(SEED, ADRS, left, right).  A hash-tree address over the two honest
\* children (2j, 2j+1) at one height of one tree gives the honest parent.
xmss_H(seed, a, l, r) ==
  IF /\ a[4] = XMSS_ADRS_TYPE_HASH /\ a[8] = 0 /\ a[5] = 0 /\ a[2] = 0
     /\ IsTerm(l, "N") /\ IsTerm(r, "N")
     /\ l[3] = seed /\ l[4] = a[1] /\ l[5] = a[3] /\ l[6] = a[6]
     /\ l[7] = 2 * a[7]
     /\ r = [l EXCEPT ![7] = 2 * a[7] + 1]
  THEN <<"N", l[2], seed, a[1], a[3], a[6] + 1, a[7]>>
  ELSE <<"H", seed, a, l, r>>

\* ---------------------------------------------------------------- wots.c
\* Chain lengths are the base-w digits of an n-byte value.  base_w is
\* injective on n-byte strings, so the digit i of M is the term <<"bw", M, i>>;
\* a concrete count k is <<"at", k>>, and (w - 1) - lengths[i] is
\* <<"rest", lengths[i]>>.  A value given byte by byte, <<"bytes", s>> with s
\* a sequence of bytes, has its digits computed as the loop computes them.
At(k) == <<"at", k>>
base_w(q, outlen, in) ==
  [i \in 0..(outlen - 1) |->
     IF IsTerm(in, "bytes")
       THEN At(Shr(in[2][((i * q.log2_w) \div 8) + 1],
                   8 - q.log2_w - ((i * q.log2_w) % 8)) % q.w)
       ELSE <<"bw", in, i>>]

\* wots_checksum: the len2 digits of the checksum of the first len1 digits
RECURSIVE ChecksumSum(_, _, _)
ChecksumSum(q, d, i) ==
  IF i = q.len1 THEN 0 ELSE (q.w - 1) - d[i][2] + ChecksumSum(q, d, i + 1)

wots_checksum(q, msg_n) ==
  LET d == base_w(q, q.len1, msg_n)
      csum_bits == q.len2 * q.log2_w
      csum_bytes_len == (csum_bits + 7) \div 8
      csum == ChecksumSum(q, d, 0) * Pow2((8 - (csum_bits % 8)) % 8)
      csum_bytes == [j \in 1..csum_bytes_len |->
                       Shr(csum, 8 * (csum_bytes_len - j)) % 256]
      c == IF IsTerm(msg_n, "bytes")
             THEN base_w(q, q.len2, <<"bytes", csum_bytes>>)
             ELSE base_w(q, q.len2, <<"csum", msg_n>>)
  IN [i \in 0..(q.len - 1) |-> IF i < q.len1 THEN d[i] ELSE c[i - q.len1]]

\* (w - 1) - lengths[i] in uint32: a digit above w - 1 would wrap to a count
\* far beyond w, which the loop guard i < w cuts exactly as it cuts 2^30
RestSteps(q, l) ==
  IF IsTerm(l, "at")
    THEN At(IF l[2] <= q.w - 1 THEN (q.w - 1) - l[2] ELSE Pow2(30))
    ELSE <<"rest", l>>

\* start + steps, capped by the loop guard i < w
ChainEnd(q, start, steps) ==
  IF IsTerm(start, "at") /\ IsTerm(steps, "at")
    THEN At(Min(start[2] + steps[2], q.w))
  ELSE IF IsTerm(start, "at") /\ start[2] = 0 THEN steps
  ELSE IF IsTerm(steps, "rest") /\ steps[2] = start THEN At(q.w - 1)
  ELSE <<"sum", start, steps>>

\* gen_chain: F applied for i = start .. start+steps-1 with hash address i and
\* key_and_mask 0.  Contiguous runs over the same chain compose.
gen_chain(q, in, start, steps, seed, adrs) ==
  LET a == xmss_adrs_set_key_and_mask(xmss_adrs_set_hash(adrs, 0), 0)
      e == ChainEnd(q, start, steps)
  IN IF e = start THEN in
     ELSE IF IsTerm(in, "C") /\ in[3] = seed /\ in[4] = a /\ in[6] = start
       THEN <<"C", in[2], seed, a, in[5], e>>
     ELSE <<"C", in, seed, a, start, e>>

wots_expand_seed(q, sk_seed, adrs) ==
  [i \in 0..(q.len - 1) |->
     xmss_PRF_keygen(sk_seed,
       xmss_adrs_set_key_and_mask(
         xmss_adrs_set_hash(xmss_adrs_set_chain(adrs, i), 0), 0))]

wots_gen_pk(q, sk_seed, seed, adrs) ==
  LET a0 == xmss_adrs_set_type(adrs, XMSS_ADRS_TYPE_OTS)
      sk == wots_expand_seed(q, sk_seed, a0)
  IN [i \in 0..(q.len - 1) |->
        gen_chain(q, sk[i], At(0), At(q.w - 1), seed,
                  xmss_adrs_set_chain(
                    xmss_adrs_set_type(adrs, XMSS_ADRS_TYPE_OTS), i))]

wots_sign(q, msg, sk_seed, seed, adrs) ==
  LET lengths == wots_checksum(q, msg)
      a0 == xmss_adrs_set_type(adrs, XMSS_ADRS_TYPE_OTS)
      sk == wots_expand_seed(q, sk_seed, a0)
  IN [i \in 0..(q.len - 1) |->
        gen_chain(q, sk[i], At(0), lengths[i], seed,
                  xmss_adrs_set_chain(
                    xmss_adrs_set_type(adrs, XMSS_ADRS_TYPE_OTS), i))]

\* wots_pk_from_sig asking every chain for w - 1 further steps
wots_pk_from_sig_full_steps(q, sig, msg, seed, adrs) ==
  LET lengths == wots_checksum(q, msg)
  IN [i \in 0..(q.len - 1) |->
        gen_chain(q, sig[i], lengths[i], At(q.w - 1), seed,
                  xmss_adrs_set_chain(
                    xmss_adrs_set_type(adrs, XMSS_ADRS_TYPE_OTS), i))]

wots_pk_from_sig(q, sig, msg, seed, adrs) ==
  LET lengths == wots_checksum(q, msg)
  IN [i \in 0..(q.len - 1) |->
        gen_chain(q, sig[i], lengths[i], RestSteps(q, lengths[i]), seed,
                  xmss_adrs_set_chain(
                    xmss_adrs_set_type(adrs, XMSS_ADRS_TYPE_OTS), i))]

\* ---------------------------------------------------------------- ltree.c
\* one level of the L-tree: pairs are hashed, an odd last element moves up
LTreeLevel(q, pk, len, height, seed, adrs) ==
  LET half == len \div 2
      a == xmss_adrs_set_tree_height(adrs, height)
  IN [i \in DOMAIN pk |->
        IF i < half
          THEN xmss_H(seed, xmss_adrs_set_tree_index(a, i),
                      pk[2 * i], pk[2 * i + 1])
        ELSE IF i = half /\ len % 2 = 1 THEN pk[len - 1]
        ELSE pk[i]]

RECURSIVE LTreeLoop(_, _, _, _, _, _)
LTreeLoop(q, pk, len, height, seed, adrs) ==
  IF len > 1
    THEN LTreeLoop(q, LTreeLevel(q, pk, len, height, seed, adrs),
                   (len + 1) \div 2, height + 1, seed, adrs)
    ELSE pk[0]

\* the public key wots_gen_pk gives for leaf i of tree (layer, tree)
HonestWotsPk(q, sk_seed, seed, layer, tree, i) ==
  wots_gen_pk(q, sk_seed, seed,
    xmss_adrs_set_ots(
      xmss_adrs_set_type(
        xmss_adrs_set_tree(xmss_adrs_set_layer(ZeroAdrs, layer), tree),
        XMSS_ADRS_TYPE_OTS), i))

\* l_tree(pk, SEED, ADRS).  The L-tree of the honest key of leaf i under the
\* L-tree address i of the same tree is the height-0 node <<"N", .., 0, i>>.
l_tree(q, pk, seed, adrs) ==
  LET t == LTreeLoop(q, pk, q.len, 0, seed, adrs)
      c == pk[0]
  IN IF /\ adrs[4] = XMSS_ADRS_TYPE_LTREE /\ adrs[2] = 0
        /\ IsTerm(c, "C") /\ IsTerm(c[2], "PRFk")
        /\ pk = HonestWotsPk(q, c[2][2], seed, adrs[1], adrs[3], adrs[5])
     THEN <<"N", c[2][2], seed, adrs[1], adrs[3], 0, adrs[5]>>
     ELSE t

\* ---------------------------------------------------------------- treehash.c
\* leaf = l_tree(WOTS_genPK(SK_SEED, SEED, OTS_ADRS)), as inlined in treehash
TreehashLeaf(q, sk_seed, seed, idx, adrs) ==
  l_tree(q,
         wots_gen_pk(q, sk_seed, seed,
           xmss_adrs_set_ots(
             xmss_adrs_set_type(adrs, XMSS_ADRS_TYPE_OTS), idx)),
         seed,
         xmss_adrs_set_ltree(
           xmss_adrs_set_type(adrs, XMSS_ADRS_TYPE_LTREE), idx))

\* the merge loop of treehash: the stack is a sequence of [node, height]
RECURSIVE TreehashMerge(_, _, _, _, _, _)
TreehashMerge(q, stack, seed, s, idx, adrs) ==
  LET top == Len(stack) IN
  IF top >= 2 /\ stack[top - 1].height = stack[top].height
    THEN LET node_height == stack[top - 1].height
             node_idx == Shr(idx - s, node_height + 1)
             a == xmss_adrs_set_tree_index(
                    xmss_adrs_set_tree_height(
                      xmss_adrs_set_type(adrs, XMSS_ADRS_TYPE_HASH),
                      node_height),
                    Shr(s, node_height + 1) + node_idx)
             merged == [node |-> xmss_H(seed, a, stack[top - 1].node,
                                        stack[top].node),
                        height |-> node_height + 1]
         IN TreehashMerge(q, Append(SubSeq(stack, 1, top - 2), merged),
                          seed, s, idx, adrs)
    ELSE stack

RECURSIVE TreehashLoop(_, _, _, _, _, _, _, _)
TreehashLoop(q, stack, sk_seed, seed, s, t, idx, adrs) ==
  IF idx < s + t
    THEN LET leaf == TreehashLeaf(q, sk_seed, seed, idx, adrs)
             pushed == Append(stack, [node |-> leaf, height |-> 0])
         IN TreehashLoop(q, TreehashMerge(q, pushed, seed, s, idx, adrs),
                         sk_seed, seed, s, t, idx + 1, adrs)
    ELSE stack

treehash(q, sk_seed, seed, s, t, adrs) ==
  TreehashLoop(q, <<>>, sk_seed, seed, s, t, s, adrs)[1].node

\* compute_root: walks q.h levels, reading auth[0 .. q.h-1]
RECURSIVE ComputeRootLoop(_, _, _, _, _, _, _)
ComputeRootLoop(q, buf, leaf_idx, auth, seed, adrs, h) ==
  IF h < q.h
    THEN LET a == xmss_adrs_set_tree_index(
                    xmss_adrs_set_tree_height(
                      xmss_adrs_set_type(adrs, XMSS_ADRS_TYPE_HASH), h),
                    Shr(leaf_idx, 1))
             tmp == IF leaf_idx % 2 = 0
                      THEN xmss_H(seed, a, buf, auth[h])
                      ELSE xmss_H(seed, a, auth[h], buf)
         IN ComputeRootLoop(q, tmp, Shr(leaf_idx, 1), auth, seed, adrs, h + 1)
    ELSE buf

compute_root(q, leaf, leaf_idx, auth, seed, adrs) ==
  ComputeRootLoop(q, leaf, leaf_idx, auth, seed, adrs, 0)

\* treehash_auth_path: auth[h] = root of the sibling subtree at level h
treehash_auth_path(q, sk_seed, seed, idx, adrs) ==
  [h \in 0..(q.h - 1) |->
     LET sibling == (IF Shr(idx, h) % 2 = 0 THEN Shr(idx, h) + 1
                     ELSE Shr(idx, h) - 1) * Pow2(h)
         subtree_size == Pow2(h)
     IN IF h = 0
          THEN TreehashLeaf(q, sk_seed, seed, sibling, adrs)
          ELSE treehash(q, sk_seed, seed, sibling, subtree_size, adrs)]

\* ---------------------------------------------------------------- bds.c
\* xmss_bds_state after memset(0): arrays are sized by XMSS_MAX_H
RetainLen == Pow2(XMSS_MAX_BDS_K) - XMSS_MAX_BDS_K - 1
ZeroTreehashInst ==
  [node |-> ZeroBytes, h |-> 0, next_idx |-> 0, stack_usage |-> 0,
   completed |-> 0]
ZeroBdsState ==
  [auth |-> [i \in 0..(XMSS_MAX_H - 1) |-> ZeroBytes],
   keep |-> [i \in 0..((XMSS_MAX_H \div 2) - 1) |-> ZeroBytes],
   stack |-> [i \in 0..XMSS_MAX_H |-> ZeroBytes],
   stack_levels |-> [i \in 0..XMSS_MAX_H |-> 0],
   stack_offset |-> 0,
   treehash |-> [i \in 0..(XMSS_MAX_H - 1) |-> ZeroTreehashInst],
   retain |-> [i \in 0..(RetainLen - 1) |-> ZeroBytes],
   next_leaf |-> 0]

gen_leaf(q, sk_seed, seed, leaf_idx, adrs) ==
  l_tree(q,
         wots_gen_pk(q, sk_seed, seed,
           xmss_adrs_set_ots(
             xmss_adrs_set_type(adrs, XMSS_ADRS_TYPE_OTS), leaf_idx)),
         seed,
         xmss_adrs_set_ltree(
           xmss_adrs_set_type(adrs, XMSS_ADRS_TYPE_LTREE), leaf_idx))

RECURSIVE MinHeightLoop(_, _, _, _)
MinHeightLoop(state, th, i, r) ==
  IF i < th.stack_usage
    THEN LET lev == state.stack_levels[state.stack_offset - i - 1]
         IN MinHeightLoop(state, th, i + 1, IF lev < r THEN lev ELSE r)
    ELSE r

treehash_minheight_on_stack(state, th) ==
  MinHeightLoop(state, th, 0, XMSS_MAX_H)

\* the merge loop of treehash_update_one; level is the instance, c carries
\* [state, nodebuf, nodeheight]
RECURSIVE UpdateOneMerge(_, _, _, _, _)
UpdateOneMerge(q, c, level, seed, adrs) ==
  LET st == c.state
      th == st.treehash[level]
  IN IF th.stack_usage > 0
        /\ st.stack_levels[st.stack_offset - 1] = c.nodeheight
       THEN LET a == xmss_adrs_set_tree_index(
                       xmss_adrs_set_tree_height(
                         xmss_adrs_set_type(adrs, XMSS_ADRS_TYPE_HASH),
                         c.nodeheight),
                       Shr(th.next_idx, c.nodeheight + 1))
                merged == xmss_H(seed, a, st.stack[st.stack_offset - 1],
                                 c.nodebuf)
            IN UpdateOneMerge(q,
                 [state |-> [st EXCEPT
                               !.treehash[level].stack_usage = @ - 1,
                               !.stack_offset = @ - 1],
                  nodebuf |-> merged,
                  nodeheight |-> c.nodeheight + 1],
                 level, seed, adrs)
       ELSE c

\* treehash_update_one finishing one level above the instance's target height
treehash_update_one_level_above(q, state, level, sk_seed, seed, adrs) ==
  LET leaf == gen_leaf(q, sk_seed, seed, state.treehash[level].next_idx, adrs)
      c == UpdateOneMerge(q, [state |-> state, nodebuf |-> leaf,
                              nodeheight |-> 0], level, seed, adrs)
      st == c.state
  IN IF c.nodeheight = st.treehash[level].h + 1
       THEN [st EXCEPT !.treehash[level].node = c.nodebuf,
                       !.treehash[level].completed = 1]
       ELSE [st EXCEPT !.stack[st.stack_offset] = c.nodebuf,
                       !.treehash[level].stack_usage = @ + 1,
                       !.stack_levels[st.stack_offset] = c.nodeheight,
                       !.stack_offset = @ + 1,
                       !.treehash[level].next_idx = @ + 1]

treehash_update_one(q, state, level, sk_seed, seed, adrs) ==
  LET leaf == gen_leaf(q, sk_seed, seed, state.treehash[level].next_idx, adrs)
      c == UpdateOneMerge(q, [state |-> state, nodebuf |-> leaf,
                              nodeheight |-> 0], level, seed, adrs)
      st == c.state
  IN IF c.nodeheight = st.treehash[level].h
       THEN [st EXCEPT !.treehash[level].node = c.nodebuf,
                       !.treehash[level].completed = 1]
       ELSE [st EXCEPT !.stack[st.stack_offset] = c.nodebuf,
                       !.treehash[level].stack_usage = @ + 1,
                       !.stack_levels[st.stack_offset] = c.nodeheight,
                       !.stack_offset = @ + 1,
                       !.treehash[level].next_idx = @ + 1]

\* the merge loop of bds_treehash_init for leaf idx; c carries the BDS state
\* and the local stack (a sequence of [node, height])
RECURSIVE InitMerge(_, _, _, _, _, _)
InitMerge(q, c, bds_k, seed, idx, adrs) ==
  LET stack == c.stack
      so == Len(stack)
  IN IF so > 1 /\ stack[so].height = stack[so - 1].height
       THEN LET nodeh == stack[so].height
                top == stack[so].node
                i == idx
                st == c.state
                st1 == IF Shr(i, nodeh) = 1
                         THEN [st EXCEPT !.auth[nodeh] = top]
                       ELSE IF nodeh < q.h - bds_k /\ Shr(i, nodeh) = 3
                         THEN [st EXCEPT !.treehash[nodeh].node = top]
                       ELSE IF nodeh >= q.h - bds_k
                         THEN LET off == Pow2(q.h - 1 - nodeh) + nodeh - q.h
                                  row == Shr(Shr(i, nodeh) - 3, 1)
                              IN [st EXCEPT !.retain[off + row] = top]
                       ELSE st
                a == xmss_adrs_set_tree_index(
                       xmss_adrs_set_tree_height(
                         xmss_adrs_set_type(adrs, XMSS_ADRS_TYPE_HASH), nodeh),
                       Shr(idx, nodeh + 1))
                merged == [node |-> xmss_H(seed, a, stack[so - 1].node, top),
                           height |-> nodeh + 1]
            IN InitMerge(q,
                 [state |-> st1,
                  stack |-> Append(SubSeq(stack, 1, so - 2), merged)],
                 bds_k, seed, idx, adrs)
       ELSE c

\* the leaf loop of bds_treehash_init over idx = lo .. hi-1, in ascending
\* order (the range is halved so that the evaluation depth stays logarithmic)
RECURSIVE InitLoop(_, _, _, _, _, _, _, _)
InitLoop(q, c, bds_k, sk_seed, seed, lo, hi, adrs) ==
  IF hi <= lo THEN c
  ELSE IF hi = lo + 1
    THEN LET leaf == gen_leaf(q, sk_seed, seed, lo, adrs)
             pushed == [c EXCEPT !.stack =
                          Append(@, [node |-> leaf, height |-> 0])]
         IN InitMerge(q, pushed, bds_k, seed, lo, adrs)
  ELSE LET mid == (lo + hi) \div 2
           left == InitLoop(q, c, bds_k, sk_seed, seed, lo, mid, adrs)
       IN IF Len(left.stack) > 0
            THEN InitLoop(q, left, bds_k, sk_seed, seed, mid, hi, adrs)
            ELSE left

\* bds_treehash_init: returns the root and the primed BDS state
bds_treehash_init(q, state, bds_k, sk_seed, seed, adrs) ==
  LET st0 == [state EXCEPT
                !.treehash = [i \in DOMAIN @ |->
                   IF i < q.h - bds_k
                     THEN [@[i] EXCEPT !.h = i, !.completed = 1,
                                       !.stack_usage = 0]
                     ELSE @[i]],
                !.stack_offset = 0,
                !.next_leaf = 0]
      c == InitLoop(q, [state |-> st0, stack |-> <<>>], bds_k, sk_seed, seed,
                    0, Pow2(q.h), adrs)
  IN [root |-> c.stack[1].node, state |-> c.state]

\* tau: lowest bit position below q.h where leaf_idx has a 0, else q.h
RECURSIVE FindTau(_, _, _)
FindTau(q, leaf_idx, i) ==
  IF i < q.h
    THEN IF Bit(leaf_idx, i) = 0 THEN i ELSE FindTau(q, leaf_idx, i + 1)
    ELSE q.h

bds_round(q, state, bds_k, leaf_idx, sk_seed, seed, adrs) ==
  LET tau == FindTau(q, leaf_idx, 0)
      buf0 == IF tau > 0 THEN state.auth[tau - 1] ELSE ZeroBytes
      buf1 == IF tau > 0 THEN state.keep[Shr(tau - 1, 1)] ELSE ZeroBytes
      st1 == IF Bit(leaf_idx, tau + 1) = 0 /\ tau < q.h - 1
               THEN [state EXCEPT !.keep[Shr(tau, 1)] = state.auth[tau]]
               ELSE state
  IN IF tau = 0
       THEN [st1 EXCEPT !.auth[0] =
               gen_leaf(q, sk_seed, seed, leaf_idx, adrs)]
       ELSE
         LET a == xmss_adrs_set_tree_index(
                    xmss_adrs_set_tree_height(
                      xmss_adrs_set_type(adrs, XMSS_ADRS_TYPE_HASH), tau - 1),
                    Shr(leaf_idx, tau))
             st2 == [st1 EXCEPT !.auth[tau] = xmss_H(seed, a, buf0, buf1)]
             st3 == [st2 EXCEPT !.auth = [i \in DOMAIN @ |->
                       IF i < tau
                         THEN IF i < q.h - bds_k
                                THEN st2.treehash[i].node
                                ELSE st2.retain[
                                       Pow2(q.h - 1 - i) + i - q.h
                                       + Shr(Shr(leaf_idx, i) - 1, 1)]
                         ELSE @[i]]]
         IN [st3 EXCEPT !.treehash = [i \in DOMAIN @ |->
               IF i < tau /\ i < q.h - bds_k
                  /\ leaf_idx + 1 + 3 * Pow2(i) < Pow2(q.h)
                 THEN [@[i] EXCEPT !.h = i,
                                   !.next_idx = leaf_idx + 1 + 3 * Pow2(i),
                                   !.completed = 0,
                                   !.stack_usage = 0]
                 ELSE @[i]]]

\* the priority scan taking every running instance's own level as its
\* priority, whatever it holds on the stack
RECURSIVE FindLevel_by_level(_, _, _, _, _)
FindLevel_by_level(q, state, bds_k, i, c) ==
  IF i < q.h - bds_k
    THEN LET th == state.treehash[i]
             low == IF th.completed # 0 THEN q.h ELSE i
         IN FindLevel_by_level(q, state, bds_k, i + 1,
                      IF low < c.l_min THEN [level |-> i, l_min |-> low]
                      ELSE c)
    ELSE c

\* priority scan of bds_treehash_update: c carries [level, l_min]
RECURSIVE FindLevel(_, _, _, _, _)
FindLevel(q, state, bds_k, i, c) ==
  IF i < q.h - bds_k
    THEN LET th == state.treehash[i]
             low == IF th.completed # 0 THEN q.h
                    ELSE IF th.stack_usage = 0 THEN i
                    ELSE treehash_minheight_on_stack(state, th)
         IN FindLevel(q, state, bds_k, i + 1,
                      IF low < c.l_min THEN [level |-> i, l_min |-> low]
                      ELSE c)
    ELSE c

RECURSIVE bds_treehash_update(_, _, _, _, _, _, _)
bds_treehash_update(q, state, bds_k, updates, sk_seed, seed, adrs) ==
  IF updates > 0
    THEN LET level == FindLevel(q, state, bds_k, 0,
                        [level |-> q.h - bds_k, l_min |-> q.h]).level
         IN IF level = q.h - bds_k
              THEN state
              ELSE bds_treehash_update(q,
                     treehash_update_one(q, state, level, sk_seed, seed, adrs),
                     bds_k, updates - 1, sk_seed, seed, adrs)
    ELSE state

\* bds_state_update is not part of bds.c; it is the warm-up step of a "next"
\* tree: one leaf of the initial build, run on the state's own stack with
\* next_leaf as cursor, over a tree of tree_height levels.
RECURSIVE StateUpdateMerge(_, _, _, _, _, _)
StateUpdateMerge(q, st, bds_k, seed, idx, adrs) ==
  LET so == st.stack_offset IN
  IF so > 1 /\ st.stack_levels[so - 1] = st.stack_levels[so - 2]
    THEN LET nodeh == st.stack_levels[so - 1]
             top == st.stack[so - 1]
             st1 == IF Shr(idx, nodeh) = 1
                      THEN [st EXCEPT !.auth[nodeh] = top]
                    ELSE IF nodeh < q.tree_height - bds_k
                            /\ Shr(idx, nodeh) = 3
                      THEN [st EXCEPT !.treehash[nodeh].node = top]
                    ELSE IF nodeh >= q.tree_height - bds_k
                      THEN [st EXCEPT !.retain[
                              Pow2(q.tree_height - 1 - nodeh) + nodeh
                              - q.tree_height
                              + Shr(Shr(idx, nodeh) - 3, 1)] = top]
                    ELSE st
             a == xmss_adrs_set_tree_index(
                    xmss_adrs_set_tree_height(
                      xmss_adrs_set_type(adrs, XMSS_ADRS_TYPE_HASH), nodeh),
                    Shr(idx, nodeh + 1))
         IN StateUpdateMerge(q,
              [st1 EXCEPT !.stack[so - 2] = xmss_H(seed, a, st.stack[so - 2],
                                                   top),
                          !.stack_levels[so - 2] = nodeh + 1,
                          !.stack_offset = so - 1],
              bds_k, seed, idx, adrs)
    ELSE st

bds_state_update(q, state, bds_k, sk_seed, seed, adrs) ==
  LET idx == state.next_leaf
      pushed == [state EXCEPT
                   !.stack[state.stack_offset] =
                      gen_leaf(q, sk_seed, seed, idx, adrs),
                   !.stack_levels[state.stack_offset] = 0,
                   !.stack_offset = @ + 1]
      merged == StateUpdateMerge(q, pushed, bds_k, seed, idx, adrs)
  IN [merged EXCEPT !.next_leaf = idx + 1]

\* ---------------------------------------------------------------- bds_serialize.c
\* A serialised buffer is a sequence of byte cells.  Byte j of an n-byte node x
\* is <<"nb", x, j>>, a byte of an integer field with value v is <<"b", v>>;
\* the byte at offset off of the buffer is buf[off + 1].
retain_count(k) == IF k = 0 THEN 0 ELSE Pow2(k) - k - 1

xmss_bds_serialized_size(q, k) ==
  LET n == q.n
      h == q.h
      th_count == h - k
      rc == retain_count(k)
  IN h * n + (h \div 2) * n + (h + 1) * n + (h + 1) + 4
     + th_count * (n + 4 + 4 + 1 + 1) + rc * n + 4

\* memcpy(buf + off, node, n), and ull_to_bytes(buf + off, len, v) or a
\* one-byte store (len = 1) of an unsigned field
NodeBytes(x, n) == [j \in 1..n |-> <<"nb", x, j - 1>>]
IntBytes(len, v) == [j \in 1..len |-> <<"b", ull_to_bytes(len, v)[j - 1]>>]

\* the pieces f[0], ..., f[cnt - 1] written one after the other
RECURSIVE ConcatUpTo(_, _)
ConcatUpTo(f, cnt) ==
  IF cnt = 0 THEN <<>> ELSE ConcatUpTo(f, cnt - 1) \o f[cnt - 1]

\* xmss_bds_serialize writing the keep nodes before the auth nodes
xmss_bds_serialize_keep_first(q, st, k) ==
  LET n == q.n
      h == q.h
      th_count == h - k
      rc == retain_count(k)
  IN ConcatUpTo([i \in 0..((h \div 2) - 1) |-> NodeBytes(st.keep[i], n)],
                h \div 2)
     \o ConcatUpTo([i \in 0..(h - 1) |-> NodeBytes(st.auth[i], n)], h)
     \o ConcatUpTo([i \in 0..h |-> NodeBytes(st.stack[i], n)], h + 1)
     \o ConcatUpTo([i \in 0..h |-> IntBytes(1, st.stack_levels[i])], h + 1)
     \o IntBytes(4, st.stack_offset)
     \o ConcatUpTo([i \in 0..(th_count - 1) |->
                      NodeBytes(st.treehash[i].node, n)
                      \o IntBytes(4, st.treehash[i].h)
                      \o IntBytes(4, st.treehash[i].next_idx)
                      \o IntBytes(1, st.treehash[i].stack_usage)
                      \o IntBytes(1, st.treehash[i].completed)], th_count)
     \o ConcatUpTo([i \in 0..(rc - 1) |-> NodeBytes(st.retain[i], n)], rc)
     \o IntBytes(4, st.next_leaf)

\* xmss_bds_serialize(p, buf, state, bds_k): the bytes written to buf
xmss_bds_serialize(q, st, k) ==
  LET n == q.n
      h == q.h
      th_count == h - k
      rc == retain_count(k)
  IN ConcatUpTo([i \in 0..(h - 1) |-> NodeBytes(st.auth[i], n)], h)
     \o ConcatUpTo([i \in 0..((h \div 2) - 1) |-> NodeBytes(st.keep[i], n)],
                   h \div 2)
     \o ConcatUpTo([i \in 0..h |-> NodeBytes(st.stack[i], n)], h + 1)
     \o ConcatUpTo([i \in 0..h |-> IntBytes(1, st.stack_levels[i])], h + 1)
     \o IntBytes(4, st.stack_offset)
     \o ConcatUpTo([i \in 0..(th_count - 1) |->
                      NodeBytes(st.treehash[i].node, n)
                      \o IntBytes(4, st.treehash[i].h)
                      \o IntBytes(4, st.treehash[i].next_idx)
                      \o IntBytes(1, st.treehash[i].stack_usage)
                      \o IntBytes(1, st.treehash[i].completed)], th_count)
     \o ConcatUpTo([i \in 0..(rc - 1) |-> NodeBytes(st.retain[i], n)], rc)
     \o IntBytes(4, st.next_leaf)

\* memcpy(node, buf + off, n): the node whose n bytes lie at off .. off + n - 1
ReadNode(buf, off, n) ==
  LET x == buf[off + 1][2]
  IN IF \A j \in 0..(n - 1) : buf[off + 1 + j] = <<"nb", x, j>>
       THEN x
       ELSE <<"cat", SubSeq(buf, off + 1, off + n)>>
\* (uint32_t)bytes_to_ull(buf + off, len), and buf[off] for len = 1
ReadInt(buf, off, len) ==
  LET v == bytes_to_ull([j \in 0..(len - 1) |-> buf[off + 1 + j][2]], len)
  IN v.hi * Pow2(24) + v.lo

\* xmss_bds_deserialize leaving the retain nodes as the memset made them
xmss_bds_deserialize_no_retain(q, buf, k) ==
  LET n == q.n
      h == q.h
      th_count == h - k
      rc == retain_count(k)
      o_keep == h * n
      o_stack == o_keep + (h \div 2) * n
      o_levels == o_stack + (h + 1) * n
      o_offset == o_levels + (h + 1)
      o_treehash == o_offset + 4
      th_bytes == n + 4 + 4 + 1 + 1
      o_retain == o_treehash + th_count * th_bytes
      o_next_leaf == o_retain + rc * n
      zero == ZeroBdsState
  IN [state |->
        [auth |-> [i \in DOMAIN zero.auth |->
                     IF i < h THEN ReadNode(buf, i * n, n) ELSE zero.auth[i]],
         keep |-> [i \in DOMAIN zero.keep |->
                     IF i < h \div 2 THEN ReadNode(buf, o_keep + i * n, n)
                     ELSE zero.keep[i]],
         stack |-> [i \in DOMAIN zero.stack |->
                      IF i < h + 1 THEN ReadNode(buf, o_stack + i * n, n)
                      ELSE zero.stack[i]],
         stack_levels |-> [i \in DOMAIN zero.stack_levels |->
                             IF i < h + 1 THEN ReadInt(buf, o_levels + i, 1)
                             ELSE zero.stack_levels[i]],
         stack_offset |-> ReadInt(buf, o_offset, 4),
         treehash |-> [i \in DOMAIN zero.treehash |->
                         IF i < th_count
                           THEN LET o == o_treehash + i * th_bytes
                                IN [node |-> ReadNode(buf, o, n),
                                    h |-> ReadInt(buf, o + n, 4),
                                    next_idx |-> ReadInt(buf, o + n + 4, 4),
                                    stack_usage |-> ReadInt(buf, o + n + 8, 1),
                                    completed |-> ReadInt(buf, o + n + 9, 1)]
                           ELSE zero.treehash[i]],
         retain |-> zero.retain,
         next_leaf |-> ReadInt(buf, o_next_leaf, 4)],
      off |-> o_next_leaf + 4]

\* xmss_bds_deserialize(p, state, buf, bds_k): the state it leaves, and the
\* value of off when it returns (the number of bytes it has read)
xmss_bds_deserialize(q, buf, k) ==
  LET n == q.n
      h == q.h
      th_count == h - k
      rc == retain_count(k)
      o_keep == h * n
      o_stack == o_keep + (h \div 2) * n
      o_levels == o_stack + (h + 1) * n
      o_offset == o_levels + (h + 1)
      o_treehash == o_offset + 4
      th_bytes == n + 4 + 4 + 1 + 1
      o_retain == o_treehash + th_count * th_bytes
      o_next_leaf == o_retain + rc * n
      zero == ZeroBdsState
  IN [state |->
        [auth |-> [i \in DOMAIN zero.auth |->
                     IF i < h THEN ReadNode(buf, i * n, n) ELSE zero.auth[i]],
         keep |-> [i \in DOMAIN zero.keep |->
                     IF i < h \div 2 THEN ReadNode(buf, o_keep + i * n, n)
                     ELSE zero.keep[i]],
         stack |-> [i \in DOMAIN zero.stack |->
                      IF i < h + 1 THEN ReadNode(buf, o_stack + i * n, n)
                      ELSE zero.stack[i]],
         stack_levels |-> [i \in DOMAIN zero.stack_levels |->
                             IF i < h + 1 THEN ReadInt(buf, o_levels + i, 1)
                             ELSE zero.stack_levels[i]],
         stack_offset |-> ReadInt(buf, o_offset, 4),
         treehash |-> [i \in DOMAIN zero.treehash |->
                         IF i < th_count
                           THEN LET o == o_treehash + i * th_bytes
                                IN [node |-> ReadNode(buf, o, n),
                                    h |-> ReadInt(buf, o + n, 4),
                                    next_idx |-> ReadInt(buf, o + n + 4, 4),
                                    stack_usage |-> ReadInt(buf, o + n + 8, 1),
                                    completed |-> ReadInt(buf, o + n + 9, 1)]
                           ELSE zero.treehash[i]],
         retain |-> [i \in DOMAIN zero.retain |->
                       IF i < rc THEN ReadNode(buf, o_retain + i * n, n)
                       ELSE zero.retain[i]],
         next_leaf |-> ReadInt(buf, o_next_leaf, 4)],
      off |-> o_next_leaf + 4]

\* ---------------------------------------------------------------- state
VARIABLES
  p,        \* the parameter set in use (xmss_params)
  api,      \* "xmss" (xmss.c), "xmss_bds" (BDS form of xmss.h), "xmss_mt"
  bds_k,    \* the retain parameter the caller passes to keygen and sign
  pk,       \* public key buffer:  OID(4) | root(n) | SEED(n)
  sk,       \* secret key buffer:  OID(4) | idx | SK_SEED | SK_PRF | root | SEED
  state,    \* traversal state: bds[0 .. 2d-2] and wots_sigs[0 .. d-2]
  sig,      \* signature buffer:   idx | r | d * (WOTS+ sig | auth)
  msg,      \* the message of the running sign call or of the last signature
  pc,       \* "nokey", "idle", or the position inside a running sign call
  loc,      \* locals of the running call (sign: idx, r, m_hash)
  ret,      \* return value of the last call, Pending while sign is running
  call,     \* the last call and, for verify, how its input was made
  nsigned,  \* number of sign calls that returned XMSS_OK
  last_idx  \* index carried by the last returned signature, -1 if none

vars == <<p, api, bds_k, pk, sk, state, sig, msg, pc, loc, ret, call,
          nsigned, last_idx>>

Msgs == 1..NumMsgs
\* values of bds_k offered to keygen: even and odd, up to tree_height and above
BdsKArgs(q) == 0..(q.tree_height + 2)
SK_SEED == <<"SK_SEED">>
SK_PRF == <<"SK_PRF">>
SEED == <<"SEED">>

\* number of n-byte units after idx | r in a signature
SigUnits(q) == q.d * q.len + q.h

ZeroSig(q) ==
  [idx |-> ull_to_bytes(q.idx_bytes, 0), r |-> ZeroBytes,
   body |-> [i \in 0..(SigUnits(q) - 1) |-> ZeroBytes]]
ZeroPk == [oid |-> ull_to_bytes(4, 0), root |-> ZeroBytes, seed |-> ZeroBytes]
ZeroSk(q) ==
  [oid |-> ull_to_bytes(4, 0), idx |-> ull_to_bytes(q.idx_bytes, 0),
   sk_seed |-> ZeroBytes, sk_prf |-> ZeroBytes, root |-> ZeroBytes,
   seed |-> ZeroBytes]
ZeroState(q) ==
  [bds |-> [i \in 0..(2 * q.d - 2) |-> ZeroBdsState],
   wots_sigs |-> [i \in 0..(q.d - 2) |->
                    [j \in 0..(q.len - 1) |-> ZeroBytes]]]
NoLoc == [idx |-> [hi |-> 0, lo |-> 0], r |-> ZeroBytes, m_hash |-> ZeroBytes]
\* rng: the invocations of the randombytes callback made by the call, each
\* with the length it asked for and the value the callback returned
\* buf: the buffer a serialise/deserialise round trip went through;
\* restored: "fresh" once the traversal state has come out of such a round
\* trip, "used" in and after the first sign call that runs on it
\* touched: the slots of state->bds and state->wots_sigs that the update part
\* of the last xmss_mt_sign read or wrote, as <<array, index>>
NoCall ==
  [op |-> "none", kind |-> "none", pos |-> 0, bit |-> 0, rng |-> <<>>,
   buf |-> <<>>, restored |-> "no", touched |-> {}]
randombytes(len, rng) == <<[len |-> len, ret |-> rng]>>

InitFor(sets) ==
  /\ p \in sets
  /\ api \in (IF p.d = 1 THEN {"xmss", "xmss_bds", "xmss_mt"}
              ELSE {"xmss_mt"})
  /\ bds_k = 0
  /\ pk = ZeroPk
  /\ sk = ZeroSk(p)
  /\ state = ZeroState(p)
  /\ sig = ZeroSig(p)
  /\ msg = 1
  /\ pc = "nokey"
  /\ loc = NoLoc
  /\ ret = XMSS_OK
  /\ call = NoCall
  /\ nsigned = 0
  /\ last_idx = 0 - 1

Init == InitFor(WideIdxSets)

\* ---------------------------------------------------------------- xmss.c
\* xmss_keygen writing the OID fields of pk and sk before it asks for entropy
xmss_keygen_oid_first(rng) ==
  /\ pc = "nokey"
  /\ api = "xmss"
  /\ call' = [NoCall EXCEPT !.op = "keygen",
                            !.rng = randombytes(3 * p.n, rng)]
  /\ IF rng # 0
       THEN /\ ret' = XMSS_ERR_ENTROPY
            /\ pk' = [pk EXCEPT !.oid = ull_to_bytes(4, p.oid)]
            /\ sk' = [sk EXCEPT !.oid = ull_to_bytes(4, p.oid)]
            /\ UNCHANGED pc
       ELSE LET adrs == xmss_adrs_set_tree(xmss_adrs_set_layer(ZeroAdrs, 0), 0)
                root == treehash(p, SK_SEED, SEED, 0, Pow2(p.h), adrs)
            IN /\ pk' = [oid |-> ull_to_bytes(4, p.oid), root |-> root,
                         seed |-> SEED]
               /\ sk' = [oid |-> ull_to_bytes(4, p.oid),
                         idx |-> ull_to_bytes(p.idx_bytes, 0),
                         sk_seed |-> SK_SEED, sk_prf |-> SK_PRF,
                         root |-> root, seed |-> SEED]
               /\ ret' = XMSS_OK
               /\ pc' = "idle"
  /\ UNCHANGED <<p, api, bds_k, state, sig, msg, loc, nsigned, last_idx>>

\* xmss_keygen drawing SK_SEED, SK_PRF and SEED with one callback invocation each
xmss_keygen_three_draws(rng) ==
  /\ pc = "nokey"
  /\ api = "xmss"
  /\ call' = [NoCall EXCEPT !.op = "keygen",
                            !.rng = IF rng # 0 THEN randombytes(p.n, rng)
                                    ELSE randombytes(p.n, 0) \o
                                         randombytes(p.n, 0) \o
                                         randombytes(p.n, 0)]
  /\ IF rng # 0
       THEN /\ ret' = XMSS_ERR_ENTROPY
            /\ UNCHANGED <<pk, sk, pc>>
       ELSE LET adrs == xmss_adrs_set_tree(xmss_adrs_set_layer(ZeroAdrs, 0), 0)
                root == treehash(p, SK_SEED, SEED, 0, Pow2(p.h), adrs)
            IN /\ pk' = [oid |-> ull_to_bytes(4, p.oid), root |-> root,
                         seed |-> SEED]
               /\ sk' = [oid |-> ull_to_bytes(4, p.oid),
                         idx |-> ull_to_bytes(p.idx_bytes, 0),
                         sk_seed |-> SK_SEED, sk_prf |-> SK_PRF,
                         root |-> root, seed |-> SEED]
               /\ ret' = XMSS_OK
               /\ pc' = "idle"
  /\ UNCHANGED <<p, api, bds_k, state, sig, msg, loc, nsigned, last_idx>>

\* xmss_keygen(p, pk, sk, randombytes): rng is the callback's return value
xmss_keygen(rng) ==
  /\ pc = "nokey"
  /\ api = "xmss"
  /\ call' = [NoCall EXCEPT !.op = "keygen",
                            !.rng = randombytes(3 * p.n, rng)]
  /\ IF rng # 0
       THEN /\ ret' = XMSS_ERR_ENTROPY
            /\ UNCHANGED <<pk, sk, pc>>
       ELSE LET adrs == xmss_adrs_set_tree(xmss_adrs_set_layer(ZeroAdrs, 0), 0)
                root == treehash(p, SK_SEED, SEED, 0, Pow2(p.h), adrs)
            IN /\ pk' = [oid |-> ull_to_bytes(4, p.oid), root |-> root,
                         seed |-> SEED]
               /\ sk' = [oid |-> ull_to_bytes(4, p.oid),
                         idx |-> ull_to_bytes(p.idx_bytes, 0),
                         sk_seed |-> SK_SEED, sk_prf |-> SK_PRF,
                         root |-> root, seed |-> SEED]
               /\ ret' = XMSS_OK
               /\ pc' = "idle"
  /\ UNCHANGED <<p, api, bds_k, state, sig, msg, loc, nsigned, last_idx>>

\* xmss_keygen(p, pk, sk, state, bds_k, randombytes), declared in xmss.h; its
\* body is not in xmss.c: parameter validation, then the body of keygen with
\* bds_treehash_init in place of treehash.
xmss_keygen_bds(k, rng) ==
  /\ pc = "nokey"
  /\ api = "xmss_bds"
  /\ call' = [NoCall EXCEPT !.op = "keygen",
                            !.rng = IF k % 2 = 1 \/ k > p.tree_height
                                      THEN <<>>
                                      ELSE randombytes(3 * p.n, rng)]
  /\ bds_k' = k
  /\ IF k % 2 = 1 \/ k > p.tree_height
       THEN /\ ret' = XMSS_ERR_PARAMS
            /\ UNCHANGED <<pk, sk, state, pc>>
     ELSE IF rng # 0
       THEN /\ ret' = XMSS_ERR_ENTROPY
            /\ UNCHANGED <<pk, sk, state, pc>>
     ELSE LET adrs == xmss_adrs_set_tree(xmss_adrs_set_layer(ZeroAdrs, 0), 0)
              t == bds_treehash_init(p, state.bds[0], k, SK_SEED, SEED, adrs)
          IN /\ state' = [state EXCEPT !.bds[0] = t.state]
             /\ pk' = [oid |-> ull_to_bytes(4, p.oid), root |-> t.root,
                       seed |-> SEED]
             /\ sk' = [oid |-> ull_to_bytes(4, p.oid),
                       idx |-> ull_to_bytes(p.idx_bytes, 0),
                       sk_seed |-> SK_SEED, sk_prf |-> SK_PRF,
                       root |-> t.root, seed |-> SEED]
             /\ ret' = XMSS_OK
             /\ pc' = "idle"
  /\ UNCHANGED <<p, api, sig, msg, loc, nsigned, last_idx>>

\* the address bds_treehash_init receives for layer i in xmss_mt_keygen
MtKeygenTreeAdrs(i) ==
  LET prev == IF i = 0 THEN ZeroAdrs
              ELSE xmss_adrs_set_ots(
                     xmss_adrs_set_type(
                       xmss_adrs_set_tree(xmss_adrs_set_layer(ZeroAdrs, i), 0),
                       XMSS_ADRS_TYPE_OTS), 0)
  IN xmss_adrs_set_tree(xmss_adrs_set_layer(prev, i), 0)

\* xmss_mt_keygen without the parity test on bds_k
xmss_mt_keygen_any_parity(k, rng) ==
  /\ pc = "nokey"
  /\ api = "xmss_mt"
  /\ call' = [NoCall EXCEPT !.op = "keygen",
                            !.rng = IF \/ p.d < 2 \/ p.d > XMSS_MAX_D
                                       \/ k > p.tree_height
                                      THEN <<>>
                                      ELSE randombytes(3 * p.n, rng)]
  /\ bds_k' = k
  /\ IF p.d < 2 \/ p.d > XMSS_MAX_D
       THEN /\ ret' = XMSS_ERR_PARAMS
            /\ UNCHANGED <<pk, sk, state, pc>>
     ELSE IF k > p.tree_height
       THEN /\ ret' = XMSS_ERR_PARAMS
            /\ UNCHANGED <<pk, sk, state, pc>>
     ELSE IF rng # 0
       THEN /\ ret' = XMSS_ERR_ENTROPY
            /\ UNCHANGED <<pk, sk, state, pc>>
     ELSE LET zero == ZeroState(p)
              built == [i \in 0..(p.d - 1) |->
                          bds_treehash_init(p, zero.bds[i], k, SK_SEED, SEED,
                            IF i < p.d - 1 THEN MtKeygenTreeAdrs(i)
                            ELSE xmss_adrs_set_tree(
                                   xmss_adrs_set_layer(ZeroAdrs, p.d - 1), 0))]
              root == built[p.d - 1].root
          IN /\ state' =
                  [bds |-> [i \in 0..(2 * p.d - 2) |->
                              IF i < p.d THEN built[i].state
                              ELSE [zero.bds[i] EXCEPT !.next_leaf = 0,
                                                       !.stack_offset = 0]],
                   wots_sigs |-> [i \in 0..(p.d - 2) |->
                      wots_sign(p, built[i].root, SK_SEED, SEED,
                        xmss_adrs_set_ots(
                          xmss_adrs_set_type(
                            xmss_adrs_set_tree(
                              xmss_adrs_set_layer(ZeroAdrs, i + 1), 0),
                            XMSS_ADRS_TYPE_OTS), 0))]]
             /\ pk' = [oid |-> ull_to_bytes(4, p.oid), root |-> root,
                       seed |-> SEED]
             /\ sk' = [oid |-> ull_to_bytes(4, p.oid),
                       idx |-> ull_to_bytes(p.idx_bytes, 0),
                       sk_seed |-> SK_SEED, sk_prf |-> SK_PRF,
                       root |-> root, seed |-> SEED]
             /\ ret' = XMSS_OK
             /\ pc' = "idle"
  /\ UNCHANGED <<p, api, sig, msg, loc, nsigned, last_idx>>

\* xmss_mt_keygen(p, pk, sk, state, bds_k, randombytes)
xmss_mt_keygen(k, rng) ==
  /\ pc = "nokey"
  /\ api = "xmss_mt"
  /\ call' = [NoCall EXCEPT !.op = "keygen",
                            !.rng = IF \/ p.d < 2 \/ p.d > XMSS_MAX_D
                                       \/ k % 2 = 1 \/ k > p.tree_height
                                      THEN <<>>
                                      ELSE randombytes(3 * p.n, rng)]
  /\ bds_k' = k
  /\ IF p.d < 2 \/ p.d > XMSS_MAX_D
       THEN /\ ret' = XMSS_ERR_PARAMS
            /\ UNCHANGED <<pk, sk, state, pc>>
     ELSE IF k % 2 = 1 \/ k > p.tree_height
       THEN /\ ret' = XMSS_ERR_PARAMS
            /\ UNCHANGED <<pk, sk, state, pc>>
     ELSE IF rng # 0
       THEN /\ ret' = XMSS_ERR_ENTROPY
            /\ UNCHANGED <<pk, sk, state, pc>>
     ELSE LET zero == ZeroState(p)
              built == [i \in 0..(p.d - 1) |->
                          bds_treehash_init(p, zero.bds[i], k, SK_SEED, SEED,
                            IF i < p.d - 1 THEN MtKeygenTreeAdrs(i)
                            ELSE xmss_adrs_set_tree(
                                   xmss_adrs_set_layer(ZeroAdrs, p.d - 1), 0))]
              root == built[p.d - 1].root
          IN /\ state' =
                  [bds |-> [i \in 0..(2 * p.d - 2) |->
                              IF i < p.d THEN built[i].state
                              ELSE [zero.bds[i] EXCEPT !.next_leaf = 0,
                                                       !.stack_offset = 0]],
                   wots_sigs |-> [i \in 0..(p.d - 2) |->
                      wots_sign(p, built[i].root, SK_SEED, SEED,
                        xmss_adrs_set_ots(
                          xmss_adrs_set_type(
                            xmss_adrs_set_tree(
                              xmss_adrs_set_layer(ZeroAdrs, i + 1), 0),
                            XMSS_ADRS_TYPE_OTS), 0))]]
             /\ pk' = [oid |-> ull_to_bytes(4, p.oid), root |-> root,
                       seed |-> SEED]
             /\ sk' = [oid |-> ull_to_bytes(4, p.oid),
                       idx |-> ull_to_bytes(p.idx_bytes, 0),
                       sk_seed |-> SK_SEED, sk_prf |-> SK_PRF,
                       root |-> root, seed |-> SEED]
             /\ ret' = XMSS_OK
             /\ pc' = "idle"
  /\ UNCHANGED <<p, api, sig, msg, loc, nsigned, last_idx>>

\* a sign call that starts on a traversal state fresh from deserialisation
UsedIfFresh(c) == IF c.restored = "fresh" THEN "used" ELSE "no"

\* SignEnter with the exhaustion check off by one (idx > idx_max + 1)
SignEnterLate(m) ==
  /\ pc = "idle"
  /\ nsigned < Pow2(p.h) + ExtraSigns
  /\ LET idx == bytes_to_ull(sk.idx, p.idx_bytes)
     IN IF U64Gt(idx, p.idx_max + 1)
          THEN /\ ret' = XMSS_ERR_EXHAUSTED
               /\ call' = [NoCall EXCEPT !.op = "sign",
                                         !.restored = UsedIfFresh(call)]
               /\ UNCHANGED <<sk, pc, loc, msg>>
          ELSE /\ sk' = [sk EXCEPT !.idx =
                           ull_to_bytes(p.idx_bytes, U64Low(idx) + 1)]
               /\ loc' = [NoLoc EXCEPT !.idx = idx]
               /\ msg' = m
               /\ pc' = "hash"
               /\ ret' = Pending
               /\ call' = [NoCall EXCEPT !.op = "sign",
                                         !.restored = UsedIfFresh(call)]
  /\ UNCHANGED <<p, api, bds_k, pk, state, sig, nsigned, last_idx>>

\* xmss_sign / xmss_mt_sign, entry: read idx, exhaustion check, write idx + 1
SignEnter(m) ==
  /\ pc = "idle"
  /\ nsigned < Pow2(p.h) + ExtraSigns
  /\ LET idx == bytes_to_ull(sk.idx, p.idx_bytes)
     IN IF U64Gt(idx, p.idx_max)
          THEN /\ ret' = XMSS_ERR_EXHAUSTED
               /\ call' = [NoCall EXCEPT !.op = "sign",
                                         !.restored = UsedIfFresh(call)]
               /\ UNCHANGED <<sk, pc, loc, msg>>
          ELSE /\ sk' = [sk EXCEPT !.idx =
                           ull_to_bytes(p.idx_bytes, U64Low(idx) + 1)]
               /\ loc' = [NoLoc EXCEPT !.idx = idx]
               /\ msg' = m
               /\ pc' = "hash"
               /\ ret' = Pending
               /\ call' = [NoCall EXCEPT !.op = "sign",
                                         !.restored = UsedIfFresh(call)]
  /\ UNCHANGED <<p, api, bds_k, pk, state, sig, nsigned, last_idx>>

\* r = PRF(SK_PRF, toByte(idx, 32)); m_hash = H_msg(r, root, idx, msg)
SignHash ==
  /\ pc = "hash"
  /\ LET r == xmss_PRF_idx(sk.sk_prf, loc.idx)
     IN loc' = [loc EXCEPT !.r = r,
                  !.m_hash = xmss_H_msg(r, sk.root, loc.idx, msg)]
  /\ pc' = "prefix"
  /\ UNCHANGED <<p, api, bds_k, pk, sk, state, sig, msg, ret, call, nsigned,
                 last_idx>>

\* sig = idx || r || ...
SignPrefix ==
  /\ pc = "prefix"
  /\ sig' = [sig EXCEPT !.idx = ull_to_bytes(p.idx_bytes, U64Low(loc.idx)),
                        !.r = loc.r]
  /\ pc' = "wots"
  /\ UNCHANGED <<p, api, bds_k, pk, sk, state, msg, loc, ret, call, nsigned,
                 last_idx>>

\* xmss_sign: the WOTS+ signature at OTS address (uint32_t)idx
xmss_sign_wots ==
  /\ pc = "wots"
  /\ api \in {"xmss", "xmss_bds"}
  /\ LET adrs == xmss_adrs_set_ots(
                   xmss_adrs_set_type(
                     xmss_adrs_set_tree(xmss_adrs_set_layer(ZeroAdrs, 0), 0),
                     XMSS_ADRS_TYPE_OTS), U64Low(loc.idx))
         w == wots_sign(p, loc.m_hash, sk.sk_seed, sk.seed, adrs)
     IN sig' = [sig EXCEPT !.body = [i \in DOMAIN @ |->
                  IF i < p.len THEN w[i] ELSE @[i]]]
  /\ pc' = "auth"
  /\ UNCHANGED <<p, api, bds_k, pk, sk, state, msg, loc, ret, call, nsigned,
                 last_idx>>

\* xmss_sign: the authentication path by treehash_auth_path, return XMSS_OK
xmss_sign_auth ==
  /\ pc = "auth"
  /\ api = "xmss"
  /\ LET adrs == xmss_adrs_set_tree(xmss_adrs_set_layer(ZeroAdrs, 0), 0)
         auth == treehash_auth_path(p, sk.sk_seed, sk.seed, U64Low(loc.idx),
                                    adrs)
     IN sig' = [sig EXCEPT !.body = [i \in DOMAIN @ |->
                  IF i >= p.len /\ i < p.len + p.h THEN auth[i - p.len]
                  ELSE @[i]]]
  /\ ret' = XMSS_OK
  /\ call' = [NoCall EXCEPT !.op = "sign", !.restored = call.restored]
  /\ pc' = "idle"
  /\ nsigned' = nsigned + 1
  /\ last_idx' = U64Low(loc.idx)
  /\ UNCHANGED <<p, api, bds_k, pk, sk, state, msg, loc>>

\* xmss_sign(p, sig, msg, msglen, sk, state, bds_k), declared in xmss.h; its
\* body is not in xmss.c: the authentication path is copied from the BDS
\* state, which is then advanced if idx < idx_max.
xmss_sign_bds_auth ==
  /\ pc = "auth"
  /\ api = "xmss_bds"
  /\ sig' = [sig EXCEPT !.body = [i \in DOMAIN @ |->
               IF i >= p.len /\ i < p.len + p.tree_height
                 THEN state.bds[0].auth[i - p.len]
                 ELSE @[i]]]
  /\ LET idx == U64Low(loc.idx)
         adrs == xmss_adrs_set_tree(xmss_adrs_set_layer(ZeroAdrs, 0), 0)
         st1 == bds_round(p, state.bds[0], bds_k, idx, sk.sk_seed, sk.seed,
                          adrs)
         st2 == bds_treehash_update(p, st1, bds_k,
                  (p.tree_height - bds_k) \div 2, sk.sk_seed, sk.seed, adrs)
     IN state' = IF idx < p.idx_max THEN [state EXCEPT !.bds[0] = st2]
                 ELSE state
  /\ ret' = XMSS_OK
  /\ call' = [NoCall EXCEPT !.op = "sign", !.restored = call.restored]
  /\ pc' = "idle"
  /\ nsigned' = nsigned + 1
  /\ last_idx' = U64Low(loc.idx)
  /\ UNCHANGED <<p, api, bds_k, pk, sk, msg, loc>>

\* xmss_mt_sign: the signature body.  Layer 0 signs m_hash; layers 1..d-1 emit
\* the cached WOTS+ signatures; each layer is followed by th auth nodes.
xmss_mt_sign_body ==
  /\ pc = "wots"
  /\ api = "xmss_mt"
  /\ LET th == p.tree_height
         idx == U64Low(loc.idx)
         idx_tree == Shr(idx, th)
         idx_leaf == MaskLow(idx, th)
         ots_addr == xmss_adrs_set_ots(
                       xmss_adrs_set_type(
                         xmss_adrs_set_tree(
                           xmss_adrs_set_layer(ZeroAdrs, 0), idx_tree),
                         XMSS_ADRS_TYPE_OTS), idx_leaf)
         w == wots_sign(p, loc.m_hash, sk.sk_seed, sk.seed, ots_addr)
         per == p.len + th
     IN sig' = [sig EXCEPT !.body = [u \in DOMAIN @ |->
                  LET i == u \div per
                      j == u % per
                  IN IF i >= p.d THEN @[u]
                     ELSE IF j >= p.len THEN state.bds[i].auth[j - p.len]
                     ELSE IF i = 0 THEN w[j]
                     ELSE state.wots_sigs[i - 1][j]]]
  /\ pc' = "auth"
  /\ UNCHANGED <<p, api, bds_k, pk, sk, state, msg, loc, ret, call, nsigned,
                 last_idx>>

\* slot j of state->bds.  The array has 2 * XMSS_MAX_D - 1 slots and keygen
\* zeroes all of them; the slots from 2d - 1 on are never written.
BdsSlot(st, j) == IF j \in DOMAIN st.bds THEN st.bds[j] ELSE ZeroBdsState

\* the layer loop swapping at a tree boundary for the last index as well
RECURSIVE MtUpdateLoop_past_last_idx(_, _, _, _, _, _, _)
MtUpdateLoop_past_last_idx(q, c, k, idx, i, sk_seed, pub_seed) ==
  IF i >= q.d THEN c
  ELSE
    LET th == q.tree_height
        st == c.state
    IN IF MaskLow(idx + 1, (i + 1) * th) # 0
         THEN
           LET idx_leaf == MaskLow(Shr(idx, th * i), th)
               idx_tree == Shr(idx, th * (i + 1))
               adrs == xmss_adrs_set_tree(
                         xmss_adrs_set_layer(ZeroAdrs, i), idx_tree)
               b1 == IF i = c.needswap_upto + 1
                       THEN bds_round(q, st.bds[i], k, idx_leaf, sk_seed,
                                      pub_seed, adrs)
                       ELSE st.bds[i]
               b2 == bds_treehash_update(q, b1, k, c.updates, sk_seed,
                                         pub_seed, adrs)
               nadrs == xmss_adrs_set_tree(
                          xmss_adrs_set_layer(ZeroAdrs, i), idx_tree + 1)
               st2 == [st EXCEPT !.bds[i] = b2]
               room == /\ i > 0 /\ c.updates > 0
                       /\ (1 + idx_tree) * Pow2(th) + idx_leaf
                            < Pow2(q.h - th * i)
               grow == room /\ BdsSlot(st2, q.d + i).next_leaf < Pow2(th)
               seen == c.touched \cup {<<"bds", i>>}
                         \cup (IF room THEN {<<"bds", q.d + i>>} ELSE {})
           IN MtUpdateLoop_past_last_idx(q,
                IF grow
                  THEN [c EXCEPT
                          !.state = [st2 EXCEPT !.bds[q.d + i] =
                             bds_state_update(q, @, k, sk_seed, pub_seed,
                                              nadrs)],
                          !.updates = @ - 1,
                          !.touched = seen]
                  ELSE [c EXCEPT !.state = st2, !.touched = seen],
                k, idx, i + 1, sk_seed, pub_seed)
       ELSE IF idx < Pow2(q.h)
         THEN
           LET swapped == [st EXCEPT !.bds[q.d + i] = st.bds[i],
                                     !.bds[i] = BdsSlot(st, q.d + i)]
               ots_addr == xmss_adrs_set_ots(
                             xmss_adrs_set_type(
                               xmss_adrs_set_tree(
                                 xmss_adrs_set_layer(ZeroAdrs, i + 1),
                                 Shr(idx + 1, (i + 2) * th)),
                               XMSS_ADRS_TYPE_OTS),
                             MaskLow(Shr(idx, (i + 1) * th) + 1, th))
               w == wots_sign(q, swapped.bds[i].stack[0], sk_seed, pub_seed,
                              ots_addr)
               st2 == [swapped EXCEPT
                         !.wots_sigs[i] = w,
                         !.bds[q.d + i].stack_offset = 0,
                         !.bds[q.d + i].next_leaf = 0,
                         !.bds[i].treehash = [j \in DOMAIN @ |->
                            IF j < th - k THEN [@[j] EXCEPT !.completed = 1]
                            ELSE @[j]]]
           IN MtUpdateLoop_past_last_idx(q,
                [state |-> st2,
                 updates |-> IF c.updates > 0 THEN c.updates - 1
                             ELSE c.updates,
                 needswap_upto |-> i,
                 touched |-> c.touched \cup {<<"bds", q.d + i>>, <<"bds", i>>,
                                             <<"wots_sigs", i>>}],
                k, idx, i + 1, sk_seed, pub_seed)
       ELSE MtUpdateLoop_past_last_idx(q, c, k, idx, i + 1, sk_seed, pub_seed)

\* the per-layer loop of xmss_mt_sign; c carries [state, updates,
\* needswap_upto, touched]
RECURSIVE MtUpdateLoop(_, _, _, _, _, _, _)
MtUpdateLoop(q, c, k, idx, i, sk_seed, pub_seed) ==
  IF i >= q.d THEN c
  ELSE
    LET th == q.tree_height
        st == c.state
    IN IF MaskLow(idx + 1, (i + 1) * th) # 0
         THEN
           LET idx_leaf == MaskLow(Shr(idx, th * i), th)
               idx_tree == Shr(idx, th * (i + 1))
               adrs == xmss_adrs_set_tree(
                         xmss_adrs_set_layer(ZeroAdrs, i), idx_tree)
               b1 == IF i = c.needswap_upto + 1
                       THEN bds_round(q, st.bds[i], k, idx_leaf, sk_seed,
                                      pub_seed, adrs)
                       ELSE st.bds[i]
               b2 == bds_treehash_update(q, b1, k, c.updates, sk_seed,
                                         pub_seed, adrs)
               nadrs == xmss_adrs_set_tree(
                          xmss_adrs_set_layer(ZeroAdrs, i), idx_tree + 1)
               st2 == [st EXCEPT !.bds[i] = b2]
               room == /\ i > 0 /\ c.updates > 0
                       /\ (1 + idx_tree) * Pow2(th) + idx_leaf
                            < Pow2(q.h - th * i)
               grow == room /\ BdsSlot(st2, q.d + i).next_leaf < Pow2(th)
               seen == c.touched \cup {<<"bds", i>>}
                         \cup (IF room THEN {<<"bds", q.d + i>>} ELSE {})
           IN MtUpdateLoop(q,
                IF grow
                  THEN [c EXCEPT
                          !.state = [st2 EXCEPT !.bds[q.d + i] =
                             bds_state_update(q, @, k, sk_seed, pub_seed,
                                              nadrs)],
                          !.updates = @ - 1,
                          !.touched = seen]
                  ELSE [c EXCEPT !.state = st2, !.touched = seen],
                k, idx, i + 1, sk_seed, pub_seed)
       ELSE IF idx < Pow2(q.h) - 1
         THEN
           LET swapped == [st EXCEPT !.bds[q.d + i] = st.bds[i],
                                     !.bds[i] = BdsSlot(st, q.d + i)]
               ots_addr == xmss_adrs_set_ots(
                             xmss_adrs_set_type(
                               xmss_adrs_set_tree(
                                 xmss_adrs_set_layer(ZeroAdrs, i + 1),
                                 Shr(idx + 1, (i + 2) * th)),
                               XMSS_ADRS_TYPE_OTS),
                             MaskLow(Shr(idx, (i + 1) * th) + 1, th))
               w == wots_sign(q, swapped.bds[i].stack[0], sk_seed, pub_seed,
                              ots_addr)
               st2 == [swapped EXCEPT
                         !.wots_sigs[i] = w,
                         !.bds[q.d + i].stack_offset = 0,
                         !.bds[q.d + i].next_leaf = 0,
                         !.bds[i].treehash = [j \in DOMAIN @ |->
                            IF j < th - k THEN [@[j] EXCEPT !.completed = 1]
                            ELSE @[j]]]
           IN MtUpdateLoop(q,
                [state |-> st2,
                 updates |-> IF c.updates > 0 THEN c.updates - 1
                             ELSE c.updates,
                 needswap_upto |-> i,
                 touched |-> c.touched \cup {<<"bds", q.d + i>>, <<"bds", i>>,
                                             <<"wots_sigs", i>>}],
                k, idx, i + 1, sk_seed, pub_seed)
       ELSE MtUpdateLoop(q, c, k, idx, i + 1, sk_seed, pub_seed)

\* xmss_mt_sign: the BDS state update after the signature is built, return
xmss_mt_sign_update ==
  /\ pc = "auth"
  /\ api = "xmss_mt"
  /\ LET th == p.tree_height
         idx == U64Low(loc.idx)
         updates == Shr(th - bds_k, 1)
         idx_tree == Shr(idx, th)
         idx_leaf == MaskLow(idx, th)
         adrs == xmss_adrs_set_tree(
                   xmss_adrs_set_layer(ZeroAdrs, 0), idx_tree + 1)
         more == (1 + idx_tree) * Pow2(th) + idx_leaf < Pow2(p.h)
         st1 == IF more
                  THEN [state EXCEPT !.bds[p.d] =
                          bds_state_update(p, @, bds_k, sk.sk_seed, sk.seed,
                                           adrs)]
                  ELSE state
         c == MtUpdateLoop(p,
                [state |-> st1, updates |-> updates,
                 needswap_upto |-> 0 - 1,
                 touched |-> IF more THEN {<<"bds", p.d>>} ELSE {}],
                bds_k, idx, 0, sk.sk_seed, sk.seed)
     IN /\ state' = c.state
        /\ call' = [NoCall EXCEPT !.op = "sign",
                                  !.restored = call.restored,
                                  !.touched = c.touched]
  /\ ret' = XMSS_OK
  /\ pc' = "idle"
  /\ nsigned' = nsigned + 1
  /\ last_idx' = U64Low(loc.idx)
  /\ UNCHANGED <<p, api, bds_k, pk, sk, sig, msg, loc>>

\* xmss_mt_remaining_sigs(p, sk); the value stays below 2^31 in every state
xmss_mt_remaining_sigs(q, k) ==
  LET idx == bytes_to_ull(k.idx, q.idx_bytes)
  IN IF U64Gt(idx, q.idx_max) THEN 0 ELSE q.idx_max - U64Low(idx) + 1

\* remaining_sigs(params, sk) of the single-tree interface; xmss.c holds no
\* body for it: idx_max - idx + 1, or 0 when the key is exhausted
xmss_remaining_sigs(q, k) ==
  LET idx == bytes_to_ull(k.idx, q.idx_bytes)
  IN IF U64Gt(idx, q.idx_max) THEN 0 ELSE q.idx_max - U64Low(idx) + 1

RemainingSigs ==
  /\ pc = "idle"
  /\ ret' = IF api = "xmss_mt" THEN xmss_mt_remaining_sigs(p, sk)
             ELSE xmss_remaining_sigs(p, sk)
  /\ call' = [NoCall EXCEPT !.op = "remaining_sigs",
                            !.restored = call.restored]
  /\ UNCHANGED <<p, api, bds_k, pk, sk, state, sig, msg, pc, loc, nsigned,
                 last_idx>>

\* the n-byte unit at offset off (in units of n bytes) after idx | r; a read
\* past the end of the signature buffer yields indeterminate bytes
SigUnit(q, s, off, junk) ==
  IF off < SigUnits(q) THEN s.body[off] ELSE <<"oob", junk, off>>

\* xmss_verify reporting an out-of-range index with the wrong error code
xmss_verify_wrong_code(q, m, s, k) ==
  LET idx == bytes_to_ull(s.idx, q.idx_bytes)
      pk_root == k.root
      pk_seed == k.seed
      sig_wots == [i \in 0..(q.len - 1) |-> s.body[i]]
      auth == [i \in 0..(q.h - 1) |-> s.body[q.len + i]]
      m_hash == xmss_H_msg(s.r, pk_root, idx, m)
      base == xmss_adrs_set_tree(xmss_adrs_set_layer(ZeroAdrs, 0), 0)
      wots_pk == wots_pk_from_sig(q, sig_wots, m_hash, pk_seed,
                   xmss_adrs_set_ots(
                     xmss_adrs_set_type(base, XMSS_ADRS_TYPE_OTS),
                     U64Low(idx)))
      leaf == l_tree(q, wots_pk, pk_seed,
                xmss_adrs_set_ltree(
                  xmss_adrs_set_type(base, XMSS_ADRS_TYPE_LTREE),
                  U64Low(idx)))
      computed_root == compute_root(q, leaf, U64Low(idx), auth, pk_seed, base)
  IN IF U64Gt(idx, q.idx_max) THEN XMSS_ERR_PARAMS
     ELSE IF ct_memcmp(computed_root, pk_root) # 0 THEN XMSS_ERR_VERIFY
     ELSE XMSS_OK

\* xmss_verify(p, msg, sig, pk)
xmss_verify(q, m, s, k) ==
  LET idx == bytes_to_ull(s.idx, q.idx_bytes)
      pk_root == k.root
      pk_seed == k.seed
      sig_wots == [i \in 0..(q.len - 1) |-> s.body[i]]
      auth == [i \in 0..(q.h - 1) |-> s.body[q.len + i]]
      r == s.r
      m_hash == xmss_H_msg(r, pk_root, idx, m)
      base == xmss_adrs_set_tree(xmss_adrs_set_layer(ZeroAdrs, 0), 0)
      wots_pk == wots_pk_from_sig(q, sig_wots, m_hash, pk_seed,
                   xmss_adrs_set_ots(
                     xmss_adrs_set_type(base, XMSS_ADRS_TYPE_OTS),
                     U64Low(idx)))
      leaf == l_tree(q, wots_pk, pk_seed,
                xmss_adrs_set_ltree(
                  xmss_adrs_set_type(base, XMSS_ADRS_TYPE_LTREE),
                  U64Low(idx)))
      computed_root == compute_root(q, leaf, U64Low(idx), auth, pk_seed, base)
  IN IF U64Gt(idx, q.idx_max) THEN XMSS_ERR_VERIFY
     ELSE IF ct_memcmp(computed_root, pk_root) # 0 THEN XMSS_ERR_VERIFY
     ELSE XMSS_OK

\* ---------------------------------------------------------------- xmss_mt.c
\* the layer loop of xmss_mt_verify: sig_ptr counts n-byte units after idx | r
RECURSIVE MtVerifyLoop(_, _, _, _, _, _, _, _)
MtVerifyLoop(q, s, pk_seed, computed_root, idx, sig_ptr, i, junk) ==
  IF i < q.d
    THEN LET th == q.tree_height
             idx_leaf == MaskLow(idx, th)
             idx1 == Shr(idx, th)
             base == xmss_adrs_set_tree(xmss_adrs_set_layer(ZeroAdrs, i), idx1)
             sig_wots == [j \in 0..(q.len - 1) |->
                            SigUnit(q, s, sig_ptr + j, junk)]
             wots_pk == wots_pk_from_sig(q, sig_wots, computed_root, pk_seed,
                          xmss_adrs_set_ots(
                            xmss_adrs_set_type(base, XMSS_ADRS_TYPE_OTS),
                            idx_leaf))
             leaf == l_tree(q, wots_pk, pk_seed,
                       xmss_adrs_set_ltree(
                         xmss_adrs_set_type(base, XMSS_ADRS_TYPE_LTREE),
                         idx_leaf))
             auth == [j \in 0..(q.h - 1) |->
                        SigUnit(q, s, sig_ptr + q.len + j, junk)]
             root == compute_root(q, leaf, idx_leaf, auth, pk_seed, base)
         IN MtVerifyLoop(q, s, pk_seed, root, idx1, sig_ptr + q.len + th,
                         i + 1, junk)
    ELSE computed_root

\* xmss_mt_verify(p, msg, sig, pk)
xmss_mt_verify(q, m, s, k, junk) ==
  LET idx == bytes_to_ull(s.idx, q.idx_bytes)
      pk_root == k.root
      pk_seed == k.seed
      m_hash == xmss_H_msg(s.r, pk_root, idx, m)
      computed_root == MtVerifyLoop(q, s, pk_seed, m_hash, U64Low(idx), 0, 0,
                                    junk)
  IN IF U64Gt(idx, q.idx_max) THEN XMSS_ERR_VERIFY
     ELSE IF ct_memcmp(computed_root, pk_root) # 0 THEN XMSS_ERR_VERIFY
     ELSE XMSS_OK

\* ---------------------------------------------------------------- callers
\* one bit of a byte, and one bit of an n-byte value, inverted
FlipByte(x, b) == IF Bit(x, b) = 1 THEN x - Pow2(b) ELSE x + Pow2(b)
FlipUnit(v, b) == <<"flip", v, b>>
UnitBits(q) == 0..(8 * q.n - 1)

\* how a verify input is derived from the caller's (msg, sig, pk)
AsIs == [kind |-> "none", pos |-> 0, bit |-> 0]
TamperCases(q) ==
  {AsIs}
  \cup {[kind |-> "sig_idx", pos |-> i, bit |-> b] :
          i \in 0..(q.idx_bytes - 1), b \in 0..7}
  \cup {[kind |-> "sig_r", pos |-> 0, bit |-> b] : b \in UnitBits(q)}
  \cup {[kind |-> "sig_body", pos |-> i, bit |-> b] :
          i \in 0..(SigUnits(q) - 1), b \in UnitBits(q)}
  \cup {[kind |-> "pk_oid", pos |-> i, bit |-> b] : i \in 0..3, b \in 0..7}
  \cup {[kind |-> "pk_root", pos |-> 0, bit |-> b] : b \in UnitBits(q)}
  \cup {[kind |-> "pk_seed", pos |-> 0, bit |-> b] : b \in UnitBits(q)}
  \cup {[kind |-> "msg", pos |-> m, bit |-> 0] : m \in Msgs \ {msg}}

TamperedMsg(c) == IF c.kind = "msg" THEN c.pos ELSE msg
TamperedSig(c) ==
  CASE c.kind = "sig_idx" ->
         [sig EXCEPT !.idx[c.pos] = FlipByte(@, c.bit)]
    [] c.kind = "sig_r" -> [sig EXCEPT !.r = FlipUnit(@, c.bit)]
    [] c.kind = "sig_body" ->
         [sig EXCEPT !.body[c.pos] = FlipUnit(@, c.bit)]
    [] OTHER -> sig
TamperedPk(c) ==
  CASE c.kind = "pk_oid" -> [pk EXCEPT !.oid[c.pos] = FlipByte(@, c.bit)]
    [] c.kind = "pk_root" -> [pk EXCEPT !.root = FlipUnit(@, c.bit)]
    [] c.kind = "pk_seed" -> [pk EXCEPT !.seed = FlipUnit(@, c.bit)]
    [] OTHER -> pk

OobValues == {0, 1}

VerifyResult(c, junk) ==
  IF api = "xmss_mt"
    THEN xmss_mt_verify(p, TamperedMsg(c), TamperedSig(c), TamperedPk(c), junk)
    ELSE xmss_verify(p, TamperedMsg(c), TamperedSig(c), TamperedPk(c))

\* A caller verifies (msg, sig, pk) as they are or with one change.  verify
\* reads its inputs only, so one call is explored after each other call.
Verify(c, junk) ==
  /\ pc = "idle"
  /\ call.op # "verify"
  /\ ret' = VerifyResult(c, junk)
  /\ call' = [NoCall EXCEPT !.op = "verify", !.kind = c.kind, !.pos = c.pos,
                            !.bit = c.bit, !.restored = call.restored]
  /\ UNCHANGED <<p, api, bds_k, pk, sk, state, sig, msg, pc, loc, nsigned,
                 last_idx>>

\* The caller persists BDS state i between two calls: xmss_bds_serialize into
\* a buffer, then xmss_bds_deserialize of that buffer into the state that the
\* following calls use.
RestoreBdsState(i) ==
  /\ pc = "idle"
  /\ api # "xmss"
  /\ call.op # "restore"
  /\ LET buf == xmss_bds_serialize(p, state.bds[i], bds_k)
         back == xmss_bds_deserialize(p, buf, bds_k)
     IN /\ state' = [state EXCEPT !.bds[i] = back.state]
        /\ call' = [NoCall EXCEPT !.op = "restore", !.pos = i, !.buf = buf,
                                  !.restored = "fresh"]
  /\ ret' = XMSS_OK
  /\ UNCHANGED <<p, api, bds_k, pk, sk, sig, msg, pc, loc, nsigned, last_idx>>

\* ---------------------------------------------------------------- utils.c, ct_memcmp
\* ct_memcmp(a, b, len) followed through its loop.  The locals are a, b, len,
\* i and the accumulator diff (a volatile uint8_t); reads lists, in order,
\* the index of every pair a[i], b[i] the call has loaded.
RECURSIVE XorBits(_, _, _)
XorBits(x, y, k) ==
  IF k = 8 THEN 0
  ELSE ((Bit(x, k) + Bit(y, k)) % 2) * Pow2(k) + XorBits(x, y, k + 1)
RECURSIVE OrBits(_, _, _)
OrBits(x, y, k) ==
  IF k = 8 THEN 0
  ELSE (IF Bit(x, k) + Bit(y, k) > 0 THEN 1 ELSE 0) * Pow2(k)
       + OrBits(x, y, k + 1)
CmpBytes == {0, 1, 255}
CmpInputs ==
  UNION { [0..(len - 1) -> CmpBytes] \X [0..(len - 1) -> CmpBytes] :
          len \in 0..MaxCmpLen }

\* the loop body with a break as soon as the accumulator is non-zero
ct_memcmp_loop_early_exit ==
  /\ pc = "ct_memcmp"
  /\ loc.i < loc.len
  /\ LET d == OrBits(loc.diff, XorBits(loc.a[loc.i], loc.b[loc.i], 0), 0)
     IN loc' = [loc EXCEPT !.diff = d,
                           !.reads = Append(@, loc.i),
                           !.i = IF d # 0 THEN loc.len ELSE @ + 1]
  /\ UNCHANGED <<p, api, bds_k, pk, sk, state, sig, msg, pc, ret, call,
                 nsigned, last_idx>>

\* for (i = 0; i < len; i++) diff |= a[i] ^ b[i];  one iteration
ct_memcmp_loop ==
  /\ pc = "ct_memcmp"
  /\ loc.i < loc.len
  /\ loc' = [loc EXCEPT
               !.diff = OrBits(@, XorBits(loc.a[loc.i], loc.b[loc.i], 0), 0),
               !.reads = Append(@, loc.i),
               !.i = @ + 1]
  /\ UNCHANGED <<p, api, bds_k, pk, sk, state, sig, msg, pc, ret, call,
                 nsigned, last_idx>>

\* return (int)diff;
ct_memcmp_return ==
  /\ pc = "ct_memcmp"
  /\ loc.i >= loc.len
  /\ ret' = loc.diff
  /\ pc' = "ct_memcmp_done"
  /\ UNCHANGED <<p, api, bds_k, pk, sk, state, sig, msg, loc, call,
                 nsigned, last_idx>>

\* ---------------------------------------------------------------- lookups
\* an xmss_params struct before any lookup has filled it
NoParams ==
  [oid |-> 0, n |-> 0, w |-> 0, log2_w |-> 0, len1 |-> 0, len2 |-> 0,
   len |-> 0, h |-> 0, d |-> 0, tree_height |-> 0, idx_bytes |-> 0,
   idx_max |-> 0, sig_bytes |-> 0, pk_bytes |-> 0, sk_bytes |-> 0]
\* arguments offered to the lookups: every OID of both registries, with and
\* without the internal prefix, one below and one above each range; every
\* name of the table and one that is not in it
OidArgs == (0..33) \cup { OID_XMSSMT_PREFIX + i : i \in 0..33 }
NameArgs ==
  { oid_table_rfc8391[i].name : i \in TableRows } \cup {"XMSS-SHA2_10_192"}

\* one lookup call on the caller's struct p: res is what the lookup returns
ParamsLookup(res, op, oid, name) ==
  /\ pc = "nokey"
  /\ call.op = "none"
  /\ p = NoParams
  /\ p' = res.params
  /\ ret' = res.ret
  /\ call' = [NoCall EXCEPT !.op = op, !.pos = oid, !.kind = name]
  /\ UNCHANGED <<api, bds_k, pk, sk, state, sig, msg, pc, loc, nsigned,
                 last_idx>>
LookupXmssOid(oid) ==
  ParamsLookup(xmss_params_from_oid(p, oid), "xmss_params_from_oid", oid, "")
LookupXmssName(name) ==
  ParamsLookup(xmss_params_from_name(p, name), "xmss_params_from_name", 0,
               name)
LookupXmssMtOid(oid) ==
  ParamsLookup(xmssmt_params_from_oid(p, oid), "xmssmt_params_from_oid", oid,
               "")
LookupXmssMtName(name) ==
  ParamsLookup(xmssmt_params_from_name(p, name), "xmssmt_params_from_name", 0,
               name)

Next ==
  \/ \E rng \in {0, 1} : xmss_keygen(rng)
  \/ \E k \in BdsKArgs(p), rng \in {0, 1} : xmss_keygen_bds(k, rng)
  \/ \E k \in BdsKArgs(p), rng \in {0, 1} : xmss_mt_keygen(k, rng)
  \/ \E m \in Msgs : SignEnter(m)
  \/ SignHash
  \/ SignPrefix
  \/ xmss_sign_wots
  \/ xmss_sign_auth
  \/ xmss_sign_bds_auth
  \/ xmss_mt_sign_body
  \/ xmss_mt_sign_update
  \/ RemainingSigs
  \/ \E c \in TamperCases(p) :
       \E junk \in (IF api = "xmss_mt" THEN OobValues ELSE {0}) :
         Verify(c, junk)

Spec == Init /\ [][Next]_vars

\* The parameter sets whose index field has exactly h bits, followed through
\* the whole life of a key; the caller verifies each signature as it is.
InitExact == InitFor(ExactIdxSets)
NextExact ==
  \/ \E k \in BdsKArgs(p), rng \in {0, 1} : xmss_mt_keygen(k, rng)
  \/ \E m \in Msgs : SignEnter(m)
  \/ SignHash
  \/ SignPrefix
  \/ xmss_mt_sign_body
  \/ xmss_mt_sign_update
  \/ RemainingSigs
  \/ \E junk \in OobValues : Verify(AsIs, junk)

SpecExact == InitExact /\ [][NextExact]_vars

\* The keys that carry a BDS traversal state, with a caller that may persist
\* and restore the state between any two calls and verifies signatures as
\* they are.
InitSerial == InitFor(WideIdxSets) /\ api # "xmss"
NextSerial ==
  \/ \E k \in BdsKArgs(p), rng \in {0, 1} : xmss_keygen_bds(k, rng)
  \/ \E k \in BdsKArgs(p), rng \in {0, 1} : xmss_mt_keygen(k, rng)
  \/ \E m \in Msgs : SignEnter(m)
  \/ SignHash
  \/ SignPrefix
  \/ xmss_sign_wots
  \/ xmss_sign_bds_auth
  \/ xmss_mt_sign_body
  \/ xmss_mt_sign_update
  \/ \E i \in DOMAIN state.bds : RestoreBdsState(i)
  \/ \E junk \in (IF api = "xmss_mt" THEN OobValues ELSE {0}) :
       Verify(AsIs, junk)

SpecSerial == InitSerial /\ [][NextSerial]_vars

\* Parameter lookup alone: a fresh struct and one lookup on it.
InitParams == InitFor({NoParams})
NextParams ==
  \/ \E oid \in OidArgs : LookupXmssOid(oid)
  \/ \E name \in NameArgs : LookupXmssName(name)
  \/ \E oid \in OidArgs : LookupXmssMtOid(oid)
  \/ \E name \in NameArgs : LookupXmssMtName(name)

SpecParams == InitParams /\ [][NextParams]_vars

\* ct_memcmp alone, entered with any two buffers of equal length.
InitCmp ==
  /\ p = NoParams
  /\ api = "xmss"
  /\ bds_k = 0
  /\ pk = ZeroPk
  /\ sk = ZeroSk(NoParams)
  /\ state = ZeroState(NoParams)
  /\ sig = ZeroSig(NoParams)
  /\ msg = 1
  /\ pc = "ct_memcmp"
  /\ \E in \in CmpInputs :
       loc = [a |-> in[1], b |-> in[2], len |-> Cardinality(DOMAIN in[1]),
              i |-> 0, diff |-> 0, reads |-> <<>>]
  /\ ret = Pending
  /\ call = [NoCall EXCEPT !.op = "ct_memcmp"]
  /\ nsigned = 0
  /\ last_idx = 0 - 1
NextCmp ==
  \/ ct_memcmp_loop
  \/ ct_memcmp_return

SpecCmp == InitCmp /\ [][NextCmp]_vars

\* ---------------------------------------------------------------- xmss_hash.c
\* The byte strings handed to the hash primitive, at the sizes of the source.
\* A cell is <<"b", v>> for a byte of known value, <<"nb", x, j>> for byte j
\* of the n-byte value x, and <<"msg", m>> for the bytes of message m.
\* ull_to_bytes(out, len, val) for a val below 2^31 and any len
ull_to_bytes_cells(len, val) ==
  [j \in 1..len |->
     <<"b", IF 8 * (len - j) >= 31 THEN 0
            ELSE Shr(val, 8 * (len - j)) % 256>>]
\* xmss_adrs_to_bytes: the eight words, each as four big-endian bytes
adrs_bytes_cells(a) ==
  [j \in 1..32 |->
     <<"b", Shr(a[((j - 1) \div 4) + 1], 8 * (3 - ((j - 1) % 4))) % 256>>]

\* the (func, n) pairs of oid_table
HashFuncs ==
  { [func |-> XMSS_FUNC_SHA2, n |-> 32], [func |-> XMSS_FUNC_SHA2, n |-> 64],
    [func |-> XMSS_FUNC_SHAKE128, n |-> 32],
    [func |-> XMSS_FUNC_SHAKE256, n |-> 64] }

\* what xmss_H_msg feeds to the incremental hash, update by update
xmss_H_msg_input(f, r, root, idx, m) ==
  LET idx_bytes == ull_to_bytes_cells(32, idx)
      dom == IF f.func = XMSS_FUNC_SHA2
               THEN ull_to_bytes_cells(f.n, DOM_H_MSG)
               ELSE ull_to_bytes_cells(32, DOM_H_MSG)
  IN dom \o NodeBytes(r, f.n) \o NodeBytes(root, f.n) \o idx_bytes
       \o << <<"msg", m>> >>

\* what xmss_PRF_keygen(p, out, sk_seed, adrs) hashes
xmss_PRF_keygen_input(f, sk_seed, adrs) ==
  LET dom == IF f.func = XMSS_FUNC_SHA2
               THEN ull_to_bytes_cells(f.n, DOM_PRF_KEYGEN)
               ELSE ull_to_bytes_cells(32, DOM_PRF_KEYGEN)
  IN dom \o NodeBytes(sk_seed, f.n) \o adrs_bytes_cells(adrs)

\* indices offered to H_msg: around every byte boundary of a 31-bit value
HMsgIdxArgs ==
  UNION { {Pow2(8 * k) - 1, Pow2(8 * k), Pow2(8 * k) + 1} : k \in 0..3 }
    \cup {Pow2(30), Pow2(30) + 1}

\* one call of xmss_H_msg on r, root, idx and a message
xmss_H_msg_call(f, idx, m) ==
  /\ pc = "nokey"
  /\ p = NoParams
  /\ loc' = [fn |-> "H_msg", f |-> f, idx |-> idx, msg |-> m,
             adrs |-> ZeroAdrs, chain |-> 0,
             input |-> xmss_H_msg_input(f, <<"r">>, <<"root">>, idx, m)]
  /\ pc' = "hashed"
  /\ UNCHANGED <<p, api, bds_k, pk, sk, state, sig, msg, ret, call, nsigned,
                 last_idx>>

\* one of the xmss_PRF_keygen calls of wots_expand_seed for the OTS address
\* of leaf ots: private element i
xmss_PRF_keygen_call(f, q, ots, i) ==
  /\ pc = "nokey"
  /\ p = NoParams
  /\ LET a0 == xmss_adrs_set_ots(
                 xmss_adrs_set_type(ZeroAdrs, XMSS_ADRS_TYPE_OTS), ots)
         el == wots_expand_seed(q, SK_SEED, a0)[i]
     IN loc' = [fn |-> "PRF_keygen", f |-> f, idx |-> ots, msg |-> 0,
                adrs |-> el[3], chain |-> i,
                input |-> xmss_PRF_keygen_input(f, el[2], el[3])]
  /\ pc' = "hashed"
  /\ UNCHANGED <<p, api, bds_k, pk, sk, state, sig, msg, ret, call, nsigned,
                 last_idx>>

NextHash ==
  \/ \E f \in HashFuncs, idx \in HMsgIdxArgs, m \in Msgs :
       xmss_H_msg_call(f, idx, m)
  \/ \E f \in HashFuncs, q \in ParamSets, ots \in 0..3 :
       \E i \in 0..(q.len - 1) : xmss_PRF_keygen_call(f, q, ots, i)

\* The inputs of the hash constructions alone: one call on a fresh process.
SpecHash == InitParams /\ [][NextHash]_vars

\* ---------------------------------------------------------------- test_wots.c
\* The sign -> pkFromSig round trip on a message given byte by byte.
ByteMsgs(q) == { <<"bytes", s>> : s \in [1..q.n -> 0..255] }
OtsAdrsArgs ==
  { xmss_adrs_set_ots(
      xmss_adrs_set_type(
        xmss_adrs_set_tree(xmss_adrs_set_layer(ZeroAdrs, l), tr),
        XMSS_ADRS_TYPE_OTS), o) : l \in 0..1, tr \in 0..1, o \in 0..3 }

wots_round_trip(q, m, adrs) ==
  /\ pc = "nokey"
  /\ p = NoParams
  /\ LET s == wots_sign(q, m, SK_SEED, SEED, adrs)
     IN loc' = [w |-> q.w, len |-> q.len, msg |-> m, adrs |-> adrs,
                lengths |-> wots_checksum(q, m),
                pk_gen |-> wots_gen_pk(q, SK_SEED, SEED, adrs),
                sig |-> s,
                pk_rec |-> wots_pk_from_sig(q, s, m, SEED, adrs)]
  /\ pc' = "wots"
  /\ UNCHANGED <<p, api, bds_k, pk, sk, state, sig, msg, ret, call, nsigned,
                 last_idx>>

NextWots ==
  \E q \in ParamSets : \E m \in ByteMsgs(q), adrs \in OtsAdrsArgs :
    wots_round_trip(q, m, adrs)

SpecWots == InitParams /\ [][NextWots]_vars

\* ---------------------------------------------------------------- bds.h
\* The traversal driven through the interface of bds.h: bds_round for the
\* next leaf, then one bds_treehash_update call with any number of updates up
\* to (tree_height - bds_k)/2, as the layers of xmss_mt_sign receive what is
\* left of the budget.  The update loop is followed one iteration at a time:
\* call.pos is the argument updates, call.bit the loop counter j.
bds_round_call(updates) ==
  /\ pc = "idle"
  /\ api = "xmss_bds"
  /\ nsigned < MaxRounds
  /\ nsigned < Pow2(p.h) - 1
  /\ state' = [state EXCEPT !.bds[0] =
                 bds_round(p, @, bds_k, nsigned, sk.sk_seed, sk.seed,
                   xmss_adrs_set_tree(xmss_adrs_set_layer(ZeroAdrs, 0), 0))]
  /\ call' = [NoCall EXCEPT !.op = "bds_treehash_update", !.pos = updates]
  /\ pc' = "update"
  /\ UNCHANGED <<p, api, bds_k, pk, sk, sig, msg, loc, ret, nsigned, last_idx>>

bds_treehash_update_step ==
  /\ pc = "update"
  /\ LET level == FindLevel(p, state.bds[0], bds_k, 0,
                    [level |-> p.h - bds_k, l_min |-> p.h]).level
     IN IF call.bit < call.pos /\ level # p.h - bds_k
          THEN /\ state' = [state EXCEPT !.bds[0] =
                    treehash_update_one(p, @, level, sk.sk_seed, sk.seed,
                      xmss_adrs_set_tree(xmss_adrs_set_layer(ZeroAdrs, 0), 0))]
               /\ call' = [call EXCEPT !.bit = @ + 1]
               /\ UNCHANGED <<pc, nsigned, last_idx>>
          ELSE /\ pc' = "idle"
               /\ nsigned' = nsigned + 1
               /\ last_idx' = nsigned
               /\ UNCHANGED <<state, call>>
  /\ UNCHANGED <<p, api, bds_k, pk, sk, sig, msg, loc, ret>>

InitUpdate == InitFor(TallSets) /\ api = "xmss_bds"
NextUpdate ==
  \/ \E k \in 0..(XMSS_MAX_BDS_K + 1), rng \in {0, 1} : xmss_keygen_bds(k, rng)
  \/ \E u \in 0..((p.tree_height - bds_k) \div 2) : bds_round_call(u)
  \/ bds_treehash_update_step

SpecUpdate == InitUpdate /\ [][NextUpdate]_vars

\* One single-tree BDS key of the tall set, signed to exhaustion; the caller
\* offers the values of bds_k the retain array has room for, and the next one.
NextTall ==
  \/ \E k \in 0..(XMSS_MAX_BDS_K + 1), rng \in {0, 1} : xmss_keygen_bds(k, rng)
  \/ \E m \in Msgs : SignEnter(m)
  \/ SignHash
  \/ SignPrefix
  \/ xmss_sign_wots
  \/ xmss_sign_bds_auth

SpecTall == InitUpdate /\ [][NextTall]_vars

\* A three-layer XMSS-MT key signed from keygen on, for every bds_k offered.
InitDeep == InitFor(DeepSets)
NextDeep ==
  \/ \E k \in BdsKArgs(p), rng \in {0, 1} : xmss_mt_keygen(k, rng)
  \/ \E m \in Msgs : SignEnter(m)
  \/ SignHash
  \/ SignPrefix
  \/ xmss_mt_sign_body
  \/ xmss_mt_sign_update

SpecDeep == InitDeep /\ [][NextDeep]_vars

\* ---------------------------------------------------------------- properties
\* the index stored in sk, and the positions inside a running sign call
SkIdx == bytes_to_ull(sk.idx, p.idx_bytes)
U64Leq(a, b) == a.hi < b.hi \/ (a.hi = b.hi /\ a.lo <= b.lo)
U64Is(v, x) == v.hi = 0 /\ v.lo = x
Signing == pc \in {"hash", "prefix", "wots", "auth"}

\* C1: across any sequence of sign calls on one key the idx stored in sk
\* never decreases, and the idx values of the returned signatures strictly
\* increase (no leaf index is used twice).
C1_IndexNeverReused ==
  [][/\ U64Leq(SkIdx, bytes_to_ull(sk'.idx, p.idx_bytes))
     /\ (nsigned' > nsigned => last_idx' > last_idx)]_vars

\* C2: once the signature at idx_max has been returned, sk holds
\* idx_max + 1, and no later sign call succeeds or gets past its entry.
C2_TerminalState ==
  nsigned >= p.idx_max + 1 =>
    /\ nsigned = p.idx_max + 1
    /\ pc = "idle"
    /\ U64Is(SkIdx, p.idx_max + 1)

\* C3: at every point inside a sign call that did not return Exhausted,
\* sk already holds idx + 1, idx being the index the call signs with.
C3_IdxWrittenFirst ==
  Signing => (loc.idx.hi = 0 /\ U64Is(SkIdx, loc.idx.lo + 1))

\* C4: a sign call returns XMSS_ERR_EXHAUSTED exactly when the idx it reads
\* from sk is greater than idx_max, and then it leaves sk unchanged.
C4_ExhaustedIffPastMax ==
  [][(pc = "idle" /\ call'.op = "sign") =>
       /\ (ret' = XMSS_ERR_EXHAUSTED) <=> U64Gt(SkIdx, p.idx_max)
       /\ (ret' = XMSS_ERR_EXHAUSTED) => (sk' = sk)]_vars
\* a sign call has returned Exhausted on a key whose last index was used,
\* and the key still holds idx_max + 1
C4_Witness ==
  /\ call.op = "sign" /\ ret = XMSS_ERR_EXHAUSTED
  /\ nsigned = p.idx_max + 1
  /\ U64Is(SkIdx, p.idx_max + 1)

\* C5: every signature produced by signing in sequence from a fresh key, for
\* every parameter set and accepted bds_k, verifies XMSS_OK under the
\* matching pk and message.
C5_SequentialSignaturesVerify ==
  (call.op = "verify" /\ call.kind = "none" /\ nsigned > 0) => ret = XMSS_OK

\* C6: in XMSS-MT the signatures around a layer-0 tree boundary (the last
\* leaf of a tree and the first leaves of the next) verify XMSS_OK, and
\* sk.idx after k signatures is k.
C6_TreeBoundary ==
  (/\ api = "xmss_mt" /\ p.d > 1 /\ pc = "idle"
   /\ nsigned >= Pow2(p.tree_height)
   /\ nsigned <= Pow2(p.tree_height) + 2) =>
    /\ U64Is(SkIdx, nsigned)
    /\ (call.op = "verify" /\ call.kind = "none") => ret = XMSS_OK

\* C7: after k successful sign calls on a fresh key, 0 <= k <= idx_max + 1,
\* sk.idx = k and remaining_sigs(sk) = idx_max - k + 1 (0 once exhausted).
C7_RemainingSigs ==
  (call.op = "remaining_sigs" /\ nsigned <= p.idx_max + 1) =>
    /\ U64Is(SkIdx, nsigned)
    /\ ret = p.idx_max - nsigned + 1

\* C8: if (msg, sig, pk) verifies XMSS_OK, then with one bit of sig or of pk
\* (its OID field included) inverted, or with another msg, verify returns
\* XMSS_ERR_VERIFY.
C8_TamperedInputFails ==
  (/\ call.op = "verify" /\ call.kind # "none"
   /\ VerifyResult(AsIs, 0) = XMSS_OK) => ret = XMSS_ERR_VERIFY

\* C9: verify returns XMSS_OK or XMSS_ERR_VERIFY and nothing else, and
\* XMSS_ERR_VERIFY whenever the index decoded from sig exceeds idx_max.
VerifiedSigIdx == bytes_to_ull(TamperedSig(call).idx, p.idx_bytes)
RngFailed(c) == \E i \in 1..Len(c.rng) : c.rng[i].ret # 0

\* C11: when the RNG callback returns non-zero, keygen returns
\* XMSS_ERR_ENTROPY and has written no byte of pk, sk or the traversal state.
C11_EntropyFailureWritesNothing ==
  [][(call'.op = "keygen" /\ RngFailed(call')) =>
       /\ ret' = XMSS_ERR_ENTROPY
       /\ pk' = pk /\ sk' = sk /\ state' = state]_vars
\* a keygen call whose parameters were accepted has returned XMSS_ERR_ENTROPY
\* and no key exists
C11_Witness ==
  /\ call.op = "keygen" /\ RngFailed(call)
  /\ ret = XMSS_ERR_ENTROPY /\ pc = "nokey"
  /\ pk = ZeroPk /\ sk = ZeroSk(p) /\ state = ZeroState(p)

\* C12: a keygen call invokes the RNG callback at most once, and when it
\* does the requested length is exactly 3n bytes.
C12_OneRngCallOf3n ==
  call.op = "keygen" =>
    /\ Len(call.rng) <= 1
    /\ \A i \in 1..Len(call.rng) : call.rng[i].len = 3 * p.n
\* a keygen call has succeeded after one callback invocation for 3n bytes
C12_Witness ==
  /\ call.op = "keygen" /\ ret = XMSS_OK /\ pc = "idle"
  /\ Len(call.rng) = 1 /\ call.rng[1].len = 3 * p.n /\ call.rng[1].ret = 0

\* the traversal state is between two calls of a key that has one
BdsAtRest == pc = "idle" /\ api # "xmss"

C15_SerializedSize ==
  BdsAtRest =>
    /\ \A i \in DOMAIN state.bds :
         LET buf == xmss_bds_serialize(p, state.bds[i], bds_k)
         IN /\ Len(buf) = xmss_bds_serialized_size(p, bds_k)
            /\ xmss_bds_deserialize(p, buf, bds_k).off =
                 xmss_bds_serialized_size(p, bds_k)
    /\ \A q \in ParamSets :
         (q.n = p.n /\ q.tree_height = p.tree_height) =>
           xmss_bds_serialized_size(q, bds_k) =
             xmss_bds_serialized_size(p, bds_k)

\* a lookup has filled the struct p
LookedUp ==
  /\ call.op \in {"xmss_params_from_oid", "xmss_params_from_name",
                  "xmssmt_params_from_oid", "xmssmt_params_from_name"}
  /\ ret = XMSS_OK
\* ceil(a / b) as the least k with k * b >= a, and 2^h - 1 as h one-bits (in
\* the representation of IdxMax)
CeilOf(a, b) == CHOOSE k \in 0..a : k * b >= a /\ (k = 0 \/ (k - 1) * b < a)
RECURSIVE OnesBelow(_)
OnesBelow(k) == IF k <= 0 THEN 0 ELSE 2 * OnesBelow(k - 1) + 1
TwoPowMinus1(h) ==
  IF h < 31 THEN OnesBelow(h)
  ELSE [j \in 0..2 |-> OnesBelow(Min(24, h - 24 * j))]

C17_MtKeyCarriesRfcOid ==
  (api = "xmss_mt" /\ p.d > 1 /\ pc # "nokey") =>
    \A field \in {pk.oid, sk.oid} :
      /\ bytes_to_ull(field, 4).hi = 0
      /\ bytes_to_ull(field, 4).lo \in 1..32

\* C18: the comparison does not short-circuit.  Whatever the two values are,
\* it loads the byte pairs 0, 1, ..., len - 1 in this order and no other, it
\* ORs every bit in which a pair differs into the one accumulator, and it
\* returns 0 exactly when all len pairs are equal.
C18_NoShortCircuit ==
  /\ pc = "ct_memcmp" =>
       /\ loc.i <= loc.len
       /\ loc.reads = [k \in 1..loc.i |-> k - 1]
  /\ pc = "ct_memcmp_done" =>
       /\ loc.reads = [k \in 1..loc.len |-> k - 1]
       /\ \A j \in 0..(loc.len - 1), k \in 0..7 :
            Bit(loc.a[j], k) # Bit(loc.b[j], k) => Bit(loc.diff, k) = 1
       /\ (ret = 0) <=> (\A j \in 0..(loc.len - 1) : loc.a[j] = loc.b[j])
\* a call on two values that differ in their first byte only has returned
\* non-zero after loading all MaxCmpLen pairs
C18_Witness ==
  /\ pc = "ct_memcmp_done" /\ loc.len = MaxCmpLen
  /\ loc.a[0] # loc.b[0]
  /\ \A j \in 1..(loc.len - 1) : loc.a[j] = loc.b[j]
  /\ Len(loc.reads) = MaxCmpLen /\ ret # 0

\* C19: after a sign call has advanced the BDS state for leaf leaf_idx of the
\* bottom tree (leaf_idx < 2^tree_height - 1, the state having stood at that
\* leaf), auth[0..tree_height) is the authentication path of leaf
\* leaf_idx + 1 as treehash_auth_path computes it from scratch, for every
\* accepted bds_k.
C19_AuthPathOfNextLeaf ==
  (/\ pc = "idle" /\ api # "xmss" /\ call.op = "sign" /\ ret = XMSS_OK
   /\ nsigned = last_idx + 1
   /\ MaskLow(last_idx, p.tree_height) < Pow2(p.tree_height) - 1)
    => \A i \in 0..(p.tree_height - 1) :
         state.bds[0].auth[i]
           = treehash_auth_path(p, sk.sk_seed, sk.seed,
               MaskLow(last_idx, p.tree_height) + 1,
               xmss_adrs_set_tree(xmss_adrs_set_layer(ZeroAdrs, 0),
                                  Shr(last_idx, p.tree_height)))[i]

\* the two bounds on one BDS state b of parameter set q
StackWithinBounds(q, b) ==
  /\ b.stack_offset <= q.tree_height + 1
  /\ \A i \in DOMAIN b.treehash : b.treehash[i].stack_usage <= b.treehash[i].h

\* C20: every BDS state reached by keygen and sign calls, of every layer and
\* of the trees in preparation, has stack_offset <= tree_height + 1 and every
\* treehash instance's stack_usage at most the instance's target height; the
\* same holds after each single treehash update of the bottom tree inside a
\* sign call, so every push lands at an index <= tree_height.
C20_StackBounds ==
  /\ \A j \in DOMAIN state.bds : StackWithinBounds(p, state.bds[j])
  /\ (/\ pc = "auth" /\ api # "xmss"
      /\ MaskLow(U64Low(loc.idx) + 1, p.tree_height) # 0)
       => LET idx == U64Low(loc.idx)
              adrs == xmss_adrs_set_tree(xmss_adrs_set_layer(ZeroAdrs, 0),
                                         Shr(idx, p.tree_height))
              st1 == bds_round(p, state.bds[0], bds_k,
                               MaskLow(idx, p.tree_height), sk.sk_seed,
                               sk.seed, adrs)
          IN \A u \in 0..((p.tree_height - bds_k) \div 2) :
               StackWithinBounds(p,
                 bds_treehash_update(p, st1, bds_k, u, sk.sk_seed, sk.seed,
                                     adrs))

\* a sign call has returned and left three nodes on the shared stack of an
\* active tree, pushed by treehash instances that are still running
C20_Witness ==
  /\ pc = "idle" /\ call.op = "sign" /\ ret = XMSS_OK
  /\ \E j \in 0..(p.d - 1) :
       /\ state.bds[j].stack_offset >= 3
       /\ \E i \in DOMAIN state.bds[j].treehash :
            /\ state.bds[j].treehash[i].stack_usage >= 1
            /\ state.bds[j].treehash[i].completed = 0

\* ------------------------------------------------- inside one BDS advance
\* The sign call about to advance the bottom tree, and the states that tree
\* goes through: after bds_round, and after each of the granted updates.
Advancing ==
  /\ pc = "auth" /\ api # "xmss"
  /\ MaskLow(U64Low(loc.idx) + 1, p.tree_height) # 0
RoundAdrs ==
  xmss_adrs_set_tree(xmss_adrs_set_layer(ZeroAdrs, 0),
                     Shr(U64Low(loc.idx), p.tree_height))
AfterRound ==
  bds_round(p, state.bds[0], bds_k, MaskLow(U64Low(loc.idx), p.tree_height),
            sk.sk_seed, sk.seed, RoundAdrs)
Budget == (p.tree_height - bds_k) \div 2
AfterUpdates(u) ==
  bds_treehash_update(p, AfterRound, bds_k, u, sk.sk_seed, sk.seed, RoundAdrs)
Instances == 0..(p.h - bds_k - 1)
Running(b) == { i \in Instances : b.treehash[i].completed = 0 }

\* stack entry j of b lies inside the subtree instance i is building: the
\* node of height th.h that covers leaf next_idx
Owns(b, i, j) ==
  LET nd == b.stack[j]
      th == b.treehash[i]
  IN /\ IsTerm(nd, "N")
     /\ nd[6] < th.h
     /\ Shr(nd[7], th.h - nd[6]) = Shr(th.next_idx, th.h)
OwnEntries(b, i) == { j \in 0..(b.stack_offset - 1) : Owns(b, i, j) }
TopEntries(b, i) ==
  { j \in 0..(b.stack_offset - 1) :
      j >= b.stack_offset - b.treehash[i].stack_usage }

\* the priority value of instance i: its level, or the least height among
\* its own entries on the shared stack
Priority(b, i) ==
  IF b.treehash[i].stack_usage = 0 THEN i
  ELSE LET hs == { b.stack_levels[j] : j \in OwnEntries(b, i) }
       IN CHOOSE x \in hs : \A y \in hs : x <= y

\* C21: each iteration of the loop of bds_treehash_update either finds every
\* instance completed and returns with the state as it is, or is one
\* treehash_update_one on a non-completed instance whose priority value (own
\* level when it holds nothing on the stack, else the least height of its
\* own stack entries) is the lowest among the non-completed ones; the loop
\* counter never passes the argument updates.
C21_LowestPriorityFirst ==
  [][(pc = "update" /\ call.bit < call.pos) =>
       LET b == state.bds[0]
           c == state'.bds[0]
       IN IF Running(b) = {} THEN c = b /\ pc' = "idle"
          ELSE /\ call'.bit = call.bit + 1 /\ call'.bit <= call.pos
               /\ \E L \in Running(b) :
                    /\ \A i \in Running(b) : Priority(b, L) <= Priority(b, i)
                    /\ c = treehash_update_one(p, b, L, sk.sk_seed, sk.seed,
                             xmss_adrs_set_tree(
                               xmss_adrs_set_layer(ZeroAdrs, 0), 0))]_vars

\* an iteration is about to advance an instance that holds a node on the
\* stack below the level of a lower instance that is running too
C21_Witness ==
  /\ pc = "update" /\ call.bit < call.pos
  /\ \E L \in Running(state.bds[0]), i \in Running(state.bds[0]) :
       /\ i < L /\ state.bds[0].treehash[L].stack_usage > 0
       /\ Priority(state.bds[0], L) < Priority(state.bds[0], i)
       /\ \A x \in Running(state.bds[0]) :
            Priority(state.bds[0], L) <= Priority(state.bds[0], x)

\* C22: compute_root reads tree_height sibling nodes and no more.  For the
\* signature a sign call has just returned, the root computed at layer 0 from
\* the honest leaf and the units verify hands over as auth is the same when
\* every unit from position tree_height on is replaced: those units belong to
\* the next layer or lie behind the signature.
C22_WalksTreeHeightLevels ==
  (pc = "idle" /\ call.op = "sign" /\ ret = XMSS_OK)
    => LET th == p.tree_height
           idx_leaf == MaskLow(last_idx, th)
           base == xmss_adrs_set_tree(xmss_adrs_set_layer(ZeroAdrs, 0),
                                      Shr(last_idx, th))
           leaf == gen_leaf(p, sk.sk_seed, sk.seed, idx_leaf, base)
           auth == [j \in 0..(p.h - 1) |-> SigUnit(p, sig, p.len + j, 0)]
           own == [j \in 0..(p.h - 1) |->
                     IF j < th THEN auth[j] ELSE ZeroBytes]
       IN compute_root(p, leaf, idx_leaf, auth, pk.seed, base)
            = compute_root(p, leaf, idx_leaf, own, pk.seed, base)

\* toByte(v, len) as the RFC writes it: len bytes, big-endian
ToByte(v, len) ==
  [j \in 1..len |-> <<"b", IF j = len THEN v % 256
                           ELSE IF j = len - 1 THEN (v \div 256) % 256
                           ELSE IF j = len - 2 THEN (v \div 65536) % 256
                           ELSE IF j = len - 3 THEN (v \div 16777216) % 256
                           ELSE 0>>]

\* C23: the byte string xmss_H_msg hashes is
\* toByte(2, n) || r || root || toByte(idx, n) || msg, for n = 32 and n = 64.
C23_HMsgInput ==
  (pc = "hashed" /\ loc.fn = "H_msg")
    => loc.input = ToByte(2, loc.f.n) \o NodeBytes(<<"r">>, loc.f.n)
                     \o NodeBytes(<<"root">>, loc.f.n)
                     \o ToByte(loc.idx, loc.f.n) \o << <<"msg", loc.msg>> >>

\* C24: the byte string xmss_PRF_keygen hashes is
\* toByte(4, n) || sk_seed || pub_seed || ADRS, and the address of private
\* element i in wots_expand_seed has chain = i, hash = 0, key_and_mask = 0.
C24_PrfKeygenInput ==
  (pc = "hashed" /\ loc.fn = "PRF_keygen")
    => /\ loc.input = ToByte(4, loc.f.n) \o NodeBytes(SK_SEED, loc.f.n)
                        \o NodeBytes(SEED, loc.f.n)
                        \o adrs_bytes_cells(loc.adrs)
       /\ loc.adrs[6] = loc.chain /\ loc.adrs[7] = 0 /\ loc.adrs[8] = 0

\* C25: for every message and every WOTS+ key, wots_pk_from_sig of
\* wots_sign(m) and m is the public key of wots_gen_pk, chain by chain, and
\* no chain is asked to go past step w - 1: every lengths[i] is at most
\* w - 1 and every chain of the recovered key ends at step w - 1.
C25_RoundTrip ==
  pc = "wots"
    => /\ loc.pk_rec = loc.pk_gen
       /\ \A i \in 0..(loc.len - 1) :
            /\ loc.lengths[i][2] <= loc.w - 1
            /\ loc.lengths[i][2] > 0 => loc.sig[i][6] = loc.lengths[i]
            /\ loc.pk_rec[i][5] = At(0)
            /\ loc.pk_rec[i][6] = At(loc.w - 1)
C25_Witness ==
  /\ pc = "wots"
  /\ \E i \in 0..(loc.len - 1) :
       loc.lengths[i][2] > 0 /\ loc.lengths[i][2] < loc.w - 1
  /\ \E i \in 0..(loc.len - 1) : loc.lengths[i][2] = 0
  /\ \E i \in 0..(loc.len - 1) : loc.lengths[i][2] = loc.w - 1

\* the root of tree number tree of layer layer: its node of height
\* tree_height
TreeRoot(layer, tree) ==
  <<"N", sk.sk_seed, sk.seed, layer, tree, p.tree_height, 0>>

\* the WOTS+ signature verify expects at layer i + 1 for signature index idx:
\* made on the root of the layer-i tree holding idx, under the tree index
\* and the OTS index xmss_mt_verify derives for layer i + 1
ExpectedWotsSig(i, idx) ==
  LET th == p.tree_height
  IN wots_sign(p, TreeRoot(i, Shr(idx, (i + 1) * th)), sk.sk_seed, sk.seed,
       xmss_adrs_set_ots(
         xmss_adrs_set_type(
           xmss_adrs_set_tree(xmss_adrs_set_layer(ZeroAdrs, i + 1),
                              Shr(idx, (i + 2) * th)),
           XMSS_ADRS_TYPE_OTS),
         MaskLow(Shr(idx, (i + 1) * th), th)))

\* a sign call of an XMSS-MT key is about to start on an unexhausted index
MtSignStart ==
  /\ pc = "idle"
  /\ api = "xmss_mt"
  /\ U64Low(SkIdx) <= p.idx_max

\* C26: at the start of every XMSS-MT sign call, for each layer i in
\* 0..d-2, the cached wots_sigs[i] is the WOTS+ signature of the root of the
\* tree active at layer i, made at layer i+1 under the tree index and OTS
\* index that verify derives for layer i+1 from the current idx.
C26_CachedSigsCurrent ==
  MtSignStart
    => \A i \in 0..(p.d - 2) :
         state.wots_sigs[i] = ExpectedWotsSig(i, U64Low(SkIdx))

\* the sign call that just returned crossed a tree boundary at layer i and
\* swapped bds[i] with bds[d + i]
SwappedAt(i) ==
  /\ pc = "idle" /\ api = "xmss_mt" /\ call.op = "sign" /\ ret = XMSS_OK
  /\ MaskLow(last_idx + 1, (i + 1) * p.tree_height) = 0
  /\ last_idx < Pow2(p.h) - 1

\* C27: whenever xmss_mt_sign swaps the active and next states at layer i,
\* for every layer i <= d-2 and every accepted bds_k, the promoted tree has
\* received 2^tree_height leaf updates since its last reset and its stack[0]
\* holds its root.
C27_PromotedTreeIsBuilt ==
  \A i \in 0..(p.d - 2) :
    SwappedAt(i)
      => /\ state.bds[i].next_leaf = Pow2(p.tree_height)
         /\ state.bds[i].stack[0]
              = TreeRoot(i, Shr(last_idx + 1, (i + 1) * p.tree_height))

\* an XMSS-MT sign call has just returned after updating the traversal state
MtSigned ==
  pc = "idle" /\ api = "xmss_mt" /\ call.op = "sign" /\ ret = XMSS_OK

\* C28: the tree-boundary branch of xmss_mt_sign is never taken for the top
\* layer i = d-1, sign never indexes bds[2d-1] or wots_sigs[d-1], and every
\* access stays within the 2d-1 BDS states and the d-1 cached signatures.
C28_AccessesInRange ==
  MtSigned
    => \A t \in call.touched :
         /\ t[1] = "bds" => t[2] \in 0..(2 * p.d - 2)
         /\ t[1] = "wots_sigs" => t[2] \in 0..(p.d - 2)

\* the signature of the last index was made: a boundary at every layer, the
\* top one included, and no swap
C28_Witness ==
  /\ MtSigned
  /\ p.d > 1
  /\ last_idx = p.idx_max
  /\ MaskLow(last_idx + 1, p.d * p.tree_height) = 0
  /\ call.touched = {}

\* the sign call at pc "auth" runs bds_round on layer l next: a boundary at
\* every layer below l and none at l
RoundAt(l) ==
  /\ pc = "auth" /\ api # "xmss"
  /\ MaskLow(U64Low(loc.idx) + 1, l * p.tree_height) = 0
  /\ MaskLow(U64Low(loc.idx) + 1, (l + 1) * p.tree_height) # 0
RoundLeaf(l) == MaskLow(Shr(U64Low(loc.idx), l * p.tree_height), p.tree_height)

\* C29: whenever bds_round refills auth[i] from treehash[i].node, that
\* instance is completed and its node is the height-i node of the auth path
\* of leaf_idx + 1: every instance restarted by an earlier round has finished
\* within the (tree_height - bds_k)/2 updates granted per signature.
C29_RefillFromFinishedInstance ==
  \A l \in 0..(p.d - 1) :
    RoundAt(l)
      => \A i \in 0..(FindTau(p, RoundLeaf(l), 0) - 1) :
           i < p.h - bds_k
             => /\ state.bds[l].treehash[i].completed = 1
                /\ state.bds[l].treehash[i].node
                     = <<"N", sk.sk_seed, sk.seed, l,
                         Shr(U64Low(loc.idx), (l + 1) * p.tree_height), i,
                         Shr(RoundLeaf(l) + 1, i) + 1>>

\* the sum of stack_usage over the instances 0..i of b
RECURSIVE UsageSum(_, _)
UsageSum(b, i) ==
  IF i < 0 THEN 0 ELSE b.treehash[i].stack_usage + UsageSum(b, i - 1)

\* C30: whenever a treehash instance is inspected or advanced, the top
\* stack_usage entries of the shared stack are exactly the entries that
\* instance pushed, stack_offset equals the sum of stack_usage over all
\* instances, and stack_usage <= stack_offset, so the index
\* stack_offset - i - 1 never goes below 0.  Stated for the state the first
\* scan of bds_treehash_update inspects in a sign call, right after bds_round.
C30_TopEntriesAreOwn ==
  (Advancing /\ Budget > 0)
    => LET b == AfterRound
       IN /\ \A i \in Running(b) :
               /\ b.treehash[i].stack_usage <= b.stack_offset
               /\ b.treehash[i].stack_usage > 0
                    => TopEntries(b, i) = OwnEntries(b, i)
          /\ b.stack_offset = UsageSum(b, p.h - bds_k - 1)

====
